---- MODULE Spec2Model ----
(***************************************************************************)
(* XFIN portfolio stress testing: ScenarioGenerator, PortfolioAnalyzer and *)
(* StressTestingEngine of src/stress_testing.py.                           *)
(*                                                                         *)
(* Numbers.  Every float of the program is modelled as an exact rational   *)
(* [n |-> numerator, d |-> denominator] with d > 0; shock factors are kept *)
(* in hundredths (-0.12 is -12).  Floating-point rounding is not modelled. *)
(* Strings that the code inspects character by character (stock names) are *)
(* sequences of one-character strings; column names and scenario names are *)
(* only compared for equality and are TLA+ strings.                        *)
(***************************************************************************)
EXTENDS Integers, Sequences, FiniteSets, TLC

VARIABLES
  portfolio_data,   \* the holdings table the caller passes to the engine
  scenarios,        \* ScenarioGenerator.scenarios, the catalog
  model,            \* StressTestingEngine.model, the optional external predictor
  call              \* the last public call: operation, arguments, result

vars == <<portfolio_data, scenarios, model, call>>

-----------------------------------------------------------------------------
(* Bounds of the model. *)

MaxRows == 2        \* rows of a holdings table
MaxNames == 2       \* scenario names in one compare_scenarios request

-----------------------------------------------------------------------------
(* Rationals. *)

Abs(i) == IF i < 0 THEN -i ELSE i

RECURSIVE GCD(_, _)
GCD(a, b) == IF b = 0 THEN a ELSE GCD(b, a % b)

\* The rational n/d (d # 0) in lowest terms with a positive denominator, so
\* that two rationals are the same number exactly when they are equal.
Rat(n, d) ==
  LET g == GCD(Abs(n), Abs(d))
      s == IF d < 0 THEN -1 ELSE 1
  IN [n |-> s * (n \div g), d |-> s * (d \div g)]

RatAdd(a, b) == Rat(a.n * b.d + b.n * a.d, a.d * b.d)

RatMul(a, b) == Rat(a.n * b.n, a.d * b.d)

RatDiv(a, b) == Rat(a.n * b.d, a.d * b.n)

RatAbs(a) == Rat(Abs(a.n), a.d)

\* a > b
RatGreater(a, b) == a.n * b.d > b.n * a.d

RECURSIVE SumOver(_, _)
SumOver(f, S) ==
  IF S = {} THEN 0
  ELSE LET x == CHOOSE y \in S : TRUE IN f[x] + SumOver(f, S \ {x})

RECURSIVE RatSum(_, _)
RatSum(f, S) ==
  IF S = {} THEN Rat(0, 1)
  ELSE LET x == CHOOSE y \in S : TRUE IN RatAdd(f[x], RatSum(f, S \ {x}))

-----------------------------------------------------------------------------
(* Strings as character sequences: str.upper, str.lower, str.strip, `in`. *)

LowerCase == <<"a", "b", "c", "d", "e", "f", "g", "h", "i", "j", "k", "l", "m",
               "n", "o", "p", "q", "r", "s", "t", "u", "v", "w", "x", "y", "z">>

UpperCase == <<"A", "B", "C", "D", "E", "F", "G", "H", "I", "J", "K", "L", "M",
               "N", "O", "P", "Q", "R", "S", "T", "U", "V", "W", "X", "Y", "Z">>

UpperChar(c) ==
  IF \E i \in 1..26 : LowerCase[i] = c
  THEN UpperCase[CHOOSE i \in 1..26 : LowerCase[i] = c] ELSE c

LowerChar(c) ==
  IF \E i \in 1..26 : UpperCase[i] = c
  THEN LowerCase[CHOOSE i \in 1..26 : UpperCase[i] = c] ELSE c

Upper(s) == [i \in 1..Len(s) |-> UpperChar(s[i])]

Lower(s) == [i \in 1..Len(s) |-> LowerChar(s[i])]

RECURSIVE Strip(_)
Strip(s) ==
  IF s = <<>> THEN s
  ELSE IF Head(s) = " " THEN Strip(Tail(s))
  ELSE IF s[Len(s)] = " " THEN Strip(SubSeq(s, 1, Len(s) - 1))
  ELSE s

\* Python's `needle in hay` on strings; the empty string is in every string.
Contains(hay, needle) ==
  \E i \in 0..(Len(hay) - Len(needle)) :
    SubSeq(hay, i + 1, i + Len(needle)) = needle

-----------------------------------------------------------------------------
(* Cells of a holdings table. *)

\* A cell of a name column: a string, NaN (a blank CSV cell), or a number
\* (a numeric security code); s is str(cell).
StrCell(s) == [kind |-> "str", s |-> s]
NaNName == [kind |-> "nan", s |-> <<"n", "a", "n">>]
NumCell(s) == [kind |-> "num", s |-> s]

\* The names the sampled tables hold.
HDFC == StrCell(<<"H", "D", "F", "C", " ", "B", "A", "N", "K">>)
InfyTech == StrCell(<<"I", "n", "f", "y", " ", "T", "e", "c", "h">>)
ScripCode == NumCell(<<"5", "0", "0">>)

NameCells == {HDFC, InfyTech, NaNName, ScripCode}

\* Python's None.
PyNone == [kind |-> "none", s |-> <<>>]

\* The names the lookups are called with: strings (one blank, one empty) and
\* None.
LookupNames ==
  { PyNone,
    StrCell(<<"T", "a", "t", "a", " ", "M", "o", "t", "o", "r", "s", " ", "P", "a", "s", "s", " ", "V", "e", "h", " ", "L", "t", "d">>),
    StrCell(<<"T", "a", "t", "a", " ", "C", "a", "p", "i", "t", "a", "l", " ", "L", "i", "m", "i", "t", "e", "d">>),
    StrCell(<<"T", "a", "t", "a", " ", "M", "o", "t", "o", "r", "s", " ", "L", "t", "d">>),
    StrCell(<<"C", "o", "a", "l", " ", "I", "n", "d", "i", "a", " ", "L", "t", "d">>),
    StrCell(<<"Z", "e", "d", " ", "V", "e", "n", "t", "u", "r", "e", "s">>),
    StrCell(<<"F", "i", "n", "t", "e", "c", "h", " ", "C", "r", "e", "d", "i", "t">>),
    StrCell(<<"A", "c", "m", "e", " ", "S", "o", "f", "t", "w", "a", "r", "e">>),
    StrCell(<<"G", "o", "o", "g", "l", "e", " ", "F", "i", "n", "a", "n", "c", "e">>),
    StrCell(<<"C", "e", "m", "e", "n", "t", " ", "S", "t", "e", "e", "l", " ", "W", "o", "r", "k", "s">>),
    StrCell(<<"P", "o", "w", "e", "r", " ", "F", "i", "n", "a", "n", "c", "e", " ", "C", "o", "r", "p">>),
    StrCell(<<" ">>),
    StrCell(<<>>) }

AllNameCells == NameCells \cup LookupNames

\* A cell of a numeric column: a number or NaN.
Num(v) == [nan |-> FALSE, v |-> v]
NaN == [nan |-> TRUE, v |-> 0]

\* The marker of a raised exception.
Raised == "raised"

-----------------------------------------------------------------------------
(* PortfolioAnalyzer. *)

Categories ==
  {"large_cap_stocks", "small_cap_stocks", "tech_stocks", "international_stocks",
   "bonds", "reits", "commodities", "crypto", "cash"}

asset_category_mapping ==
  << [key |-> <<"B", "A", "N", "K", " ", "O", "F", " ", "M", "A", "H", "A", "R", "A", "S", "H", "T", "R", "A">>, category |-> "large_cap_stocks"],
     [key |-> <<"H", "D", "F", "C", " ", "B", "A", "N", "K">>, category |-> "large_cap_stocks"],
     [key |-> <<"I", "C", "I", "C", "I", " ", "B", "A", "N", "K">>, category |-> "large_cap_stocks"],
     [key |-> <<"S", "B", "I">>, category |-> "large_cap_stocks"],
     [key |-> <<"K", "O", "T", "A", "K", " ", "M", "A", "H", "I", "N", "D", "R", "A", " ", "B", "A", "N", "K">>, category |-> "large_cap_stocks"],
     [key |-> <<"A", "X", "I", "S", " ", "B", "A", "N", "K">>, category |-> "large_cap_stocks"],
     [key |-> <<"G", "A", "I", "L", " ", "(", "I", "N", "D", "I", "A", ")", " ", "L", "T", "D">>, category |-> "large_cap_stocks"],
     [key |-> <<"I", "N", "D", "I", "A", "N", " ", "O", "I", "L", " ", "C", "O", "R", "P", " ", "L", "T", "D">>, category |-> "large_cap_stocks"],
     [key |-> <<"H", "I", "N", "D", "U", "S", "T", "A", "N", " ", "P", "E", "T", "R", "O", "L", "E", "U", "M", " ", "C", "O", "R", "P">>, category |-> "large_cap_stocks"],
     [key |-> <<"O", "I", "L", " ", "A", "N", "D", " ", "N", "A", "T", "U", "R", "A", "L", " ", "G", "A", "S", " ", "C", "O", "R", "P", ".">>, category |-> "large_cap_stocks"],
     [key |-> <<"O", "I", "L", " ", "I", "N", "D", "I", "A", " ", "L", "T", "D">>, category |-> "large_cap_stocks"],
     [key |-> <<"C", "O", "A", "L", " ", "I", "N", "D", "I", "A", " ", "L", "T", "D">>, category |-> "large_cap_stocks"],
     [key |-> <<"A", "A", "P", "L">>, category |-> "tech_stocks"],
     [key |-> <<"A", "p", "p", "l", "e", " ", "I", "n", "c">>, category |-> "tech_stocks"],
     [key |-> <<"A", "p", "p", "l", "e">>, category |-> "tech_stocks"],
     [key |-> <<"M", "S", "F", "T">>, category |-> "tech_stocks"],
     [key |-> <<"M", "i", "c", "r", "o", "s", "o", "f", "t", " ", "C", "o", "r", "p">>, category |-> "tech_stocks"],
     [key |-> <<"M", "i", "c", "r", "o", "s", "o", "f", "t">>, category |-> "tech_stocks"],
     [key |-> <<"G", "O", "O", "G", "L">>, category |-> "tech_stocks"],
     [key |-> <<"A", "l", "p", "h", "a", "b", "e", "t", " ", "I", "n", "c">>, category |-> "tech_stocks"],
     [key |-> <<"G", "o", "o", "g", "l", "e">>, category |-> "tech_stocks"],
     [key |-> <<"J", "I", "O", " ", "F", "I", "N", " ", "S", "E", "R", "V", "I", "C", "E", "S", " ", "L", "T", "D">>, category |-> "tech_stocks"] >>

BankWords ==
  { <<"b", "a", "n", "k">>,
    <<"f", "i", "n", "a", "n", "c", "i", "a", "l">>,
    <<"i", "n", "s", "u", "r", "a", "n", "c", "e">>,
    <<"c", "r", "e", "d", "i", "t">>,
    <<"f", "i", "n", "a", "n", "c", "e">>,
    <<"m", "u", "t", "u", "a", "l", " ", "f", "u", "n", "d">> }

TechWords ==
  { <<"t", "e", "c", "h">>,
    <<"s", "o", "f", "t", "w", "a", "r", "e">>,
    <<"c", "y", "b", "e", "r">>,
    <<"d", "a", "t", "a">>,
    <<"a", "i">>,
    <<"d", "i", "g", "i", "t", "a", "l">>,
    <<"c", "o", "m", "p", "u", "t", "e", "r">>,
    <<"t", "e", "l", "e", "c", "o", "m">>,
    <<"j", "i", "o">> }

EnergyWords ==
  { <<"o", "i", "l">>,
    <<"g", "a", "s">>,
    <<"e", "n", "e", "r", "g", "y">>,
    <<"p", "e", "t", "r", "o", "l", "e", "u", "m">>,
    <<"c", "o", "a", "l">>,
    <<"p", "o", "w", "e", "r">>,
    <<"e", "l", "e", "c", "t", "r", "i", "c">>,
    <<"r", "e", "n", "e", "w", "a", "b", "l", "e">> }

\* get_value_column's candidates, in priority order.
possible_value_columns ==
  << "Invested Value", "Current Value",
     "Closing value", "Closing Value", "closing value", "CLOSING VALUE",
     "Market Value", "Market value", "market value", "MARKET VALUE",
     "Buy value", "Buy Value", "buy value", "BUY VALUE",
     "Value", "value", "VALUE" >>

\* get_stock_name_column's candidates, in priority order.
possible_name_columns ==
  << "Stock Name", "stock name", "Stock name", "STOCK NAME",
     "Security Name", "security name", "Security name", "SECURITY NAME",
     "Name", "name", "NAME", "Symbol", "symbol", "SYMBOL" >>

\* The value a missing column is reported as (Python's None).
NoColumn == "None"

\* The first candidate that is a column of the table, or None.
FirstColumn(candidates, df) ==
  LET hits == {i \in 1..Len(candidates) : candidates[i] \in df.columns}
  IN IF hits = {} THEN NoColumn
     ELSE candidates[CHOOSE i \in hits : \A j \in hits : i <= j]

\* get_value_column with the calculated columns tried last instead of first.
get_value_column_DirectFirst(df) ==
  FirstColumn(SubSeq(possible_value_columns, 3, Len(possible_value_columns))
                \o SubSeq(possible_value_columns, 1, 2), df)

get_value_column(df) == FirstColumn(possible_value_columns, df)

get_stock_name_column(df) == FirstColumn(possible_name_columns, df)

\* Series multiplication: NaN propagates.
Times(a, b) == IF a.nan \/ b.nan THEN NaN ELSE Num(a.v * b.v)

\* Adds (or overwrites) the column col, computed row by row from a and b.
WithProduct(df, col, a, b) ==
  IF {a, b} \subseteq df.columns
  THEN [df EXCEPT
          !.columns = @ \cup {col},
          !.rows = [i \in 1..Len(df.rows) |->
                      [c \in df.columns \cup {col} |->
                         IF c = col THEN Times(df.rows[i][a], df.rows[i][b])
                         ELSE df.rows[i][c]]]]
  ELSE df

\* calculate_portfolio_values of a table; df.copy() raises on None, which the
\* callers test with df.isNone before they apply this.
calculate_portfolio_values(df) ==
  WithProduct(WithProduct(df, "Invested Value", "Average buy price", "Quantity"),
              "Current Value", "Closing price", "Quantity")

\* `not stock_name or pd.isna(stock_name)`
Blank(stock_name) ==
  \/ stock_name.kind \in {"nan", "none"}
  \/ stock_name.kind = "str" /\ stock_name.s = <<>>
  \/ stock_name.kind = "num" /\ stock_name.s = <<"0">>

KeyMatches(key, clean_name) ==
  Contains(clean_name, Upper(key)) \/ Contains(Upper(key), clean_name)

HasWord(name_lower, words) == \E w \in words : Contains(name_lower, w)

\* categorize_asset with the technology keywords tried before the banking
\* ones.
categorize_asset_TechFirst(stock_name) ==
  IF Blank(stock_name) THEN "large_cap_stocks"
  ELSE
    LET clean_name == Upper(Strip(stock_name.s))
        hits == {i \in 1..Len(asset_category_mapping) :
                   KeyMatches(asset_category_mapping[i].key, clean_name)}
    IN IF hits # {}
       THEN asset_category_mapping[CHOOSE i \in hits : \A j \in hits : i <= j].category
       ELSE IF stock_name.kind # "str" THEN Raised
       ELSE LET name_lower == Lower(stock_name.s)
            IN IF HasWord(name_lower, TechWords) THEN "tech_stocks"
               ELSE "large_cap_stocks"

\* categorize_asset with a holding without a name put under 'cash'.
categorize_asset_BlankIsCash(stock_name) ==
  IF Blank(stock_name) THEN "cash"
  ELSE
    LET clean_name == Upper(Strip(stock_name.s))
        hits == {i \in 1..Len(asset_category_mapping) :
                   KeyMatches(asset_category_mapping[i].key, clean_name)}
    IN IF hits # {}
       THEN asset_category_mapping[CHOOSE i \in hits : \A j \in hits : i <= j].category
       ELSE IF stock_name.kind # "str" THEN Raised
       ELSE LET name_lower == Lower(stock_name.s)
            IN IF HasWord(name_lower, BankWords) THEN "large_cap_stocks"
               ELSE IF HasWord(name_lower, TechWords) THEN "tech_stocks"
               ELSE IF HasWord(name_lower, EnergyWords) THEN "large_cap_stocks"
               ELSE "large_cap_stocks"

\* The category of a name cell, or Raised: stock_name.lower() is an
\* AttributeError when the cell is not a string.
categorize_asset(stock_name) ==
  IF Blank(stock_name) THEN "large_cap_stocks"
  ELSE
    LET clean_name == Upper(Strip(stock_name.s))
        hits == {i \in 1..Len(asset_category_mapping) :
                   KeyMatches(asset_category_mapping[i].key, clean_name)}
    IN IF hits # {}
       THEN asset_category_mapping[CHOOSE i \in hits : \A j \in hits : i <= j].category
       ELSE IF stock_name.kind # "str" THEN Raised
       ELSE LET name_lower == Lower(stock_name.s)
            IN IF HasWord(name_lower, BankWords) THEN "large_cap_stocks"
               ELSE IF HasWord(name_lower, TechWords) THEN "tech_stocks"
               ELSE IF HasWord(name_lower, EnergyWords) THEN "large_cap_stocks"
               ELSE "large_cap_stocks"

\* categorize_asset, tabulated once for the name cells of the sampled tables.
category_of == [stock_name \in AllNameCells |-> categorize_asset(stock_name)]

\* A variant of default_portfolio_analysis: 55% large-cap and 20% tech.
default_portfolio_analysis_Shifted ==
  [ composition |->
      [c \in {"large_cap_stocks", "tech_stocks", "small_cap_stocks", "reits", "bonds"} |->
         CASE c = "large_cap_stocks" -> Rat(55, 100)
           [] c = "tech_stocks" -> Rat(20, 100)
           [] c = "small_cap_stocks" -> Rat(15, 100)
           [] c = "reits" -> Rat(5, 100)
           [] c = "bonds" -> Rat(5, 100)],
    total_weight |-> Rat(1, 1),
    num_assets |-> 20,
    concentration_risk |-> Rat(25, 100),
    categories_count |-> 5,
    total_portfolio_value |-> 50000,
    value_column_used |-> "Default" ]

default_portfolio_analysis ==
  [ composition |->
      [c \in {"large_cap_stocks", "tech_stocks", "small_cap_stocks", "reits", "bonds"} |->
         CASE c = "large_cap_stocks" -> Rat(60, 100)
           [] c = "tech_stocks" -> Rat(15, 100)
           [] c = "small_cap_stocks" -> Rat(15, 100)
           [] c = "reits" -> Rat(5, 100)
           [] c = "bonds" -> Rat(5, 100)],
    total_weight |-> Rat(1, 1),
    num_assets |-> 20,
    concentration_risk |-> Rat(25, 100),
    categories_count |-> 5,
    total_portfolio_value |-> 50000,
    value_column_used |-> "Default" ]

\* Series.sum() of a column: NaN cells are skipped.
ColumnSum(df, col) ==
  SumOver([i \in 1..Len(df.rows) |->
             IF df.rows[i][col].nan THEN 0 ELSE df.rows[i][col].v],
          1..Len(df.rows))

\* The rows the loop of analyze_portfolio does not skip.
Counted(df, value_col) ==
  {i \in 1..Len(df.rows) : ~df.rows[i][value_col].nan /\ df.rows[i][value_col].v > 0}

\* A variant of BucketWeight: the weight is assigned, not added, so the last
\* row of a category wins.
BucketWeight_Overwrite(df, value_col, total_value, members) ==
  LET last == CHOOSE i \in members : \A j \in members : j <= i
  IN Rat(df.rows[last][value_col].v, total_value)

\* portfolio_categories[category] += weight, over the rows of one category.
BucketWeight(df, value_col, total_value, members) ==
  RatSum([i \in members |-> Rat(df.rows[i][value_col].v, total_value)], members)

analyze_portfolio(data) ==
  IF data.isNone \/ data.rows = <<>> \/ data.columns = {}
  THEN default_portfolio_analysis
  ELSE
    LET df == calculate_portfolio_values(data)
        value_col == get_value_column(df)
        name_col == get_stock_name_column(df)
    IN IF value_col = NoColumn \/ name_col = NoColumn
       THEN default_portfolio_analysis
       ELSE
         LET total_value == ColumnSum(df, value_col)
             counted == Counted(df, value_col)
             category == [i \in counted |-> category_of[df.rows[i][name_col]]]
             present == {category[i] : i \in counted}
             portfolio_categories ==
               [c \in present |->
                  BucketWeight(df, value_col, total_value,
                               {i \in counted : category[i] = c})]
         IN IF total_value <= 0 THEN default_portfolio_analysis
            ELSE IF Raised \in present THEN default_portfolio_analysis
            ELSE IF present = {} THEN default_portfolio_analysis
            ELSE [ composition |-> portfolio_categories,
                   total_weight |-> RatSum(portfolio_categories, present),
                   num_assets |-> Len(df.rows),
                   concentration_risk |->
                     RatSum([c \in present |->
                               RatMul(portfolio_categories[c], portfolio_categories[c])],
                            present),
                   categories_count |-> Cardinality(present),
                   total_portfolio_value |-> total_value,
                   value_column_used |-> value_col ]

-----------------------------------------------------------------------------
(* ScenarioGenerator: the catalog, shock factors in hundredths. *)

Factors(large, small, tech, intl, bonds, reits, commodities, crypto, cash) ==
  [c \in Categories |->
     CASE c = "large_cap_stocks" -> large
       [] c = "small_cap_stocks" -> small
       [] c = "tech_stocks" -> tech
       [] c = "international_stocks" -> intl
       [] c = "bonds" -> bonds
       [] c = "reits" -> reits
       [] c = "commodities" -> commodities
       [] c = "crypto" -> crypto
       [] c = "cash" -> cash]

\* The catalog's keys, as character sequences.
market_correction ==
  <<"m", "a", "r", "k", "e", "t", "_", "c", "o", "r", "r", "e", "c", "t", "i", "o", "n">>
recession_scenario ==
  <<"r", "e", "c", "e", "s", "s", "i", "o", "n", "_", "s", "c", "e", "n", "a", "r", "i", "o">>
inflation_spike ==
  <<"i", "n", "f", "l", "a", "t", "i", "o", "n", "_", "s", "p", "i", "k", "e">>
tech_sector_crash ==
  <<"t", "e", "c", "h", "_", "s", "e", "c", "t", "o", "r", "_", "c", "r", "a", "s", "h">>
personal_emergency ==
  <<"p", "e", "r", "s", "o", "n", "a", "l", "_", "e", "m", "e", "r", "g", "e", "n", "c", "y">>

ScenarioNames ==
  {market_correction, recession_scenario, inflation_spike,
   tech_sector_crash, personal_emergency}

\* A scenario name that is not in the catalog, and the names callers ask for.
oil_shock ==
  <<"o", "i", "l", "_", "s", "h", "o", "c", "k">>

RequestedNames == ScenarioNames \cup {oil_shock}

\* ScenarioGenerator.__init__ (the descriptions' en dashes are written "-").
ScenarioCatalog ==
  [s \in ScenarioNames |->
     CASE s = market_correction ->
            [name |-> "Market Correction",
             factors |-> Factors(-12, -18, -15, -10, 2, -8, -5, -25, 0),
             description |-> "10-15% drop in broad equities, happens every 1-2 years",
             probability |-> Rat(40, 100)]
       [] s = recession_scenario ->
            [name |-> "Economic Recession",
             factors |-> Factors(-22, -28, -25, -20, 8, -15, -12, -40, 0),
             description |-> "20-30% drop in equities, occurs ~every 8-10 years",
             probability |-> Rat(15, 100)]
       [] s = inflation_spike ->
            [name |-> "High Inflation Period",
             factors |-> Factors(-8, -12, -20, -5, -15, 5, 15, -30, -6),
             description |-> "5-10% equity losses, can persist 1-2 years",
             probability |-> Rat(25, 100)]
       [] s = tech_sector_crash ->
            [name |-> "Tech Sector Crash",
             factors |-> Factors(-15, -10, -45, -8, 5, -5, 2, -35, 0),
             description |-> "15-25% tech drop, cyclic every 3-5 years",
             probability |-> Rat(20, 100)]
       [] s = personal_emergency ->
            [name |-> "Personal Emergency",
             factors |-> Factors(-5, -8, -6, -7, -2, -10, -12, -15, 0),
             description |-> "Forced liquidation losses of 5-10%",
             probability |-> Rat(10, 100)]]

\* ScenarioGenerator.list_scenarios, in the catalog's insertion order.
list_scenarios(catalog) ==
  SelectSeq(<<market_correction, recession_scenario, inflation_spike,
              tech_sector_crash, personal_emergency>>,
            LAMBDA s : s \in DOMAIN catalog)

\* A variant of get_scenario: the default is another scenario of the catalog.
get_scenario_OtherDefault(catalog, name) ==
  IF name \in DOMAIN catalog THEN catalog[name] ELSE catalog[recession_scenario]

\* ScenarioGenerator.get_scenario: dict.get with the market_correction default.
get_scenario(catalog, name) ==
  IF name \in DOMAIN catalog THEN catalog[name] ELSE catalog[market_correction]

-----------------------------------------------------------------------------
(* PortfolioAnalyzer.calculate_stress_impact. *)

\* A variant of FactorOf: a category missing from the table counts with 0.
FactorOf_ZeroDefault(scenario_factors, cat) ==
  IF cat \in DOMAIN scenario_factors THEN Rat(scenario_factors[cat], 100)
  ELSE Rat(0, 1)

\* scenario_factors.get(cat, -0.05)
FactorOf(scenario_factors, cat) ==
  IF cat \in DOMAIN scenario_factors THEN Rat(scenario_factors[cat], 100)
  ELSE Rat(-5, 100)

WeightedImpact(composition, scenario_factors) ==
  RatSum([cat \in DOMAIN composition |->
            RatMul(composition[cat], FactorOf(scenario_factors, cat))],
         DOMAIN composition)

\* A variant of RiskLevel: the bands include their lower edge (>=).
RiskLevel_Inclusive(abs_impact) ==
  IF ~RatGreater(Rat(25, 100), abs_impact) THEN "Extreme"
  ELSE IF ~RatGreater(Rat(15, 100), abs_impact) THEN "High"
  ELSE IF ~RatGreater(Rat(8, 100), abs_impact) THEN "Medium"
  ELSE "Low"

RiskLevel(abs_impact) ==
  IF RatGreater(abs_impact, Rat(25, 100)) THEN "Extreme"
  ELSE IF RatGreater(abs_impact, Rat(15, 100)) THEN "High"
  ELSE IF RatGreater(abs_impact, Rat(8, 100)) THEN "Medium"
  ELSE "Low"

\* (abs_impact / annual_return) * 12 with annual_return = 0.125
RecoveryMonths(abs_impact) == RatMul(RatDiv(abs_impact, Rat(125, 1000)), Rat(12, 1))

Var95(total_impact) == RatMul(total_impact, Rat(15, 10))

\* Values np.random.uniform(-0.15, -0.08) can draw from the half-open interval
\* [-0.15, -0.08): its low end (included), its middle, and the last point of
\* a 0.01 grid below its high end (excluded).
UniformDraws == {Rat(k, 100) : k \in {-15, -12, -9}}

\* A default impact labelled 'Low'.
default_stress_impact_Low(base_impact) ==
  [ total_impact |-> base_impact,
    impact_percentage |-> RatMul(base_impact, Rat(100, 1)),
    factor_contributions |-> [market_shock |-> base_impact],
    var_95 |-> RatMul(base_impact, Rat(15, 10)),
    recovery_months |-> RatMul(RatAbs(base_impact), Rat(18, 1)),
    risk_level |-> "Low",
    value_calculation_method |-> "Default" ]

default_stress_impact(base_impact) ==
  [ total_impact |-> base_impact,
    impact_percentage |-> RatMul(base_impact, Rat(100, 1)),
    factor_contributions |-> [market_shock |-> base_impact],
    var_95 |-> RatMul(base_impact, Rat(15, 10)),
    recovery_months |-> RatMul(RatAbs(base_impact), Rat(18, 1)),
    risk_level |-> "Medium",
    value_calculation_method |-> "Default" ]

\* The result of the try block, for a table calculate_portfolio_values accepts.
StressImpact(data, scenario_factors) ==
  LET analysis == analyze_portfolio(calculate_portfolio_values(data))
      total_impact == WeightedImpact(analysis.composition, scenario_factors)
      abs_impact == RatAbs(total_impact)
  IN [ total_impact |-> total_impact,
       impact_percentage |-> RatMul(total_impact, Rat(100, 1)),
       risk_level |-> RiskLevel(abs_impact),
       recovery_months |-> RecoveryMonths(abs_impact),
       var_95 |-> Var95(total_impact),
       factor_contributions |-> <<>>,
       composition_effect |-> analysis,
       value_calculation_method |-> analysis.value_column_used ]

\* The set of results calculate_stress_impact can return: one on the normal
\* path, and any _default_stress_impact draw when the try block raises
\* (calculate_portfolio_values(None) is an AttributeError).
calculate_stress_impact(data, scenario_factors) ==
  IF data.isNone
  THEN {default_stress_impact(base_impact) : base_impact \in UniformDraws}
  ELSE {StressImpact(data, scenario_factors)}

-----------------------------------------------------------------------------
(* StressTestingEngine. *)

\* The external predictors an engine is constructed with: "None" (no model),
\* "NoMethod" (an object without predict_stress_impact), and objects whose
\* predict_stress_impact raises, returns None, returns a well-formed result,
\* or returns a dict without the result keys.
Models == {"None", "NoMethod", "Raises", "ReturnsNone", "Predicts", "Malformed"}

\* hasattr(self.model, 'predict_stress_impact') and self.model is not None
HasPredictor(m) == m \notin {"None", "NoMethod"}

\* A result an external predictor returns, and a dict that is no result.
ExternalPrediction ==
  [ total_impact |-> Rat(-30, 100),
    impact_percentage |-> Rat(-30, 1),
    risk_level |-> "Extreme",
    recovery_months |-> Rat(24, 1),
    var_95 |-> Rat(-45, 100) ]

MalformedPrediction == [note |-> "n/a"]

\* The try/except around self.model.predict_stress_impact: the prediction,
\* or Nothing when there is no predictor, it raises or it returns None.
Nothing == [some |-> FALSE]
Some(r) == [some |-> TRUE, result |-> r]

Predicted(m) ==
  IF ~HasPredictor(m) THEN Nothing
  ELSE CASE m = "Raises" -> Nothing
         [] m = "ReturnsNone" -> Nothing
         [] m = "Predicts" -> Some(ExternalPrediction)
         [] m = "Malformed" -> Some(MalformedPrediction)

\* explain_stress_impact without the fallback to the built-in analyzer: a
\* predictor that raises or returns None gives a default impact.
explain_stress_impact_DefaultOnFailure(catalog, m, data, scenario_name) ==
  LET scenario == get_scenario(catalog, scenario_name)
      stress_impacts ==
        IF Predicted(m).some THEN {Predicted(m).result}
        ELSE IF HasPredictor(m)
        THEN {default_stress_impact(base_impact) : base_impact \in UniformDraws}
        ELSE calculate_stress_impact(data, scenario.factors)
      portfolio_analysis == analyze_portfolio(data)
  IN { [ scenario |-> scenario,
         stress_impact |-> stress_impact,
         portfolio_analysis |-> portfolio_analysis ] :
       stress_impact \in stress_impacts }

\* The set of results explain_stress_impact can return for a string name.
\* (Its except branch needs an exception inside the try block; with a string
\* name none of the calls there raises.)
explain_stress_impact(catalog, m, data, scenario_name) ==
  LET scenario == get_scenario(catalog, scenario_name)
      stress_impacts ==
        IF Predicted(m).some THEN {Predicted(m).result}
        ELSE calculate_stress_impact(data, scenario.factors)
      portfolio_analysis == analyze_portfolio(data)
  IN { [ scenario |-> scenario,
         stress_impact |-> stress_impact,
         portfolio_analysis |-> portfolio_analysis ] :
       stress_impact \in stress_impacts }

IsLetter(c) == \E i \in 1..26 : LowerCase[i] = c \/ UpperCase[i] = c

\* scenario_name.replace('_', ' ').title()
Title(scenario_name) ==
  LET spaced == [i \in 1..Len(scenario_name) |->
                   IF scenario_name[i] = "_" THEN " " ELSE scenario_name[i]]
  IN [i \in 1..Len(spaced) |->
        IF i = 1 \/ ~IsLetter(spaced[i - 1]) THEN UpperChar(spaced[i])
        ELSE LowerChar(spaced[i])]

\* Title, tabulated once for the scenario names the model requests.
title_of == [scenario_name \in RequestedNames |-> Title(scenario_name)]

\* The row compare_scenarios appends for one analysis; impact[...] is a
\* KeyError when the stress impact lacks a key, and the scenario is skipped.
RowKeys == {"impact_percentage", "risk_level", "recovery_months"}

ComparisonRow(scenario_name, analysis) ==
  LET impact == analysis.stress_impact
  IN [ scenario |-> title_of[scenario_name],
       impact_percentage |-> impact.impact_percentage,
       risk_level |-> impact.risk_level,
       recovery_months |-> impact.recovery_months ]

\* The loop with results.insert(0, ...) in place of results.append(...).
RECURSIVE ComparisonRows_Reversed(_, _, _, _)
ComparisonRows_Reversed(catalog, m, data, scenario_names) ==
  IF scenario_names = <<>> THEN {<<>>}
  ELSE
    LET n == Len(scenario_names)
        scenario_name == scenario_names[n]
        before == ComparisonRows_Reversed(catalog, m, data, SubSeq(scenario_names, 1, n - 1))
        analyses == explain_stress_impact(catalog, m, data, scenario_name)
    IN { IF RowKeys \subseteq DOMAIN analysis.stress_impact
         THEN <<ComparisonRow(scenario_name, analysis)>> \o results
         ELSE results :
         results \in before, analysis \in analyses }

\* The result lists the loop of compare_scenarios can build.
RECURSIVE ComparisonRows(_, _, _, _)
ComparisonRows(catalog, m, data, scenario_names) ==
  IF scenario_names = <<>> THEN {<<>>}
  ELSE
    LET n == Len(scenario_names)
        scenario_name == scenario_names[n]
        before == ComparisonRows(catalog, m, data, SubSeq(scenario_names, 1, n - 1))
        analyses == explain_stress_impact(catalog, m, data, scenario_name)
    IN { IF RowKeys \subseteq DOMAIN analysis.stress_impact
         THEN Append(results, ComparisonRow(scenario_name, analysis))
         ELSE results :
         results \in before, analysis \in analyses }

\* `if not results:` the three hard-coded rows.
FallbackRows ==
  << [scenario |-> <<"M", "a", "r", "k", "e", "t", " ", "C", "o", "r", "r", "e", "c", "t", "i", "o", "n">>,
      impact_percentage |-> Rat(-125, 10), risk_level |-> "Medium",
      recovery_months |-> Rat(8, 1)],
     [scenario |-> <<"T", "e", "c", "h", " ", "C", "r", "a", "s", "h">>,
      impact_percentage |-> Rat(-182, 10), risk_level |-> "High",
      recovery_months |-> Rat(15, 1)],
     [scenario |-> <<"R", "e", "c", "e", "s", "s", "i", "o", "n">>,
      impact_percentage |-> Rat(-237, 10), risk_level |-> "High",
      recovery_months |-> Rat(22, 1)] >>

\* The set of tables (lists of rows) compare_scenarios can return.
compare_scenarios(catalog, m, data, scenario_names) ==
  { IF results = <<>> THEN FallbackRows ELSE results :
    results \in ComparisonRows(catalog, m, data, scenario_names) }

-----------------------------------------------------------------------------
(* The inputs the model draws from. *)

\* A pandas DataFrame: its column names and its rows, each row a function
\* from the column names to cells.  NoTable is Python's None.
Table(columns, rows) == [isNone |-> FALSE, columns |-> columns, rows |-> rows]
NoTable == [isNone |-> TRUE, columns |-> {}, rows |-> <<>>]

ValueCells == {Num(-1), Num(0), Num(1), Num(3), NaN}

\* The cells a column of the sampled tables holds.
CellsOf(col) ==
  CASE col = "Stock Name" -> NameCells
    [] col = "Value" -> ValueCells
    [] col = "Symbol" -> {InfyTech}
    [] col = "Buy value" -> {Num(1), Num(3)}
    [] col = "Quantity" -> {Num(1), Num(2)}
    [] col = "Average buy price" -> {Num(1), NaN}

RowsOver(columns) ==
  {row \in [columns -> UNION {CellsOf(c) : c \in columns}] :
     \A c \in columns : row[c] \in CellsOf(c)}

SeqsUpTo(S, n) == UNION {[1..k -> S] : k \in 0..n}

TablesOver(columns, n) == {Table(columns, rows) : rows \in SeqsUpTo(RowsOver(columns), n)}

\* Holdings tables: None, tables with a name and a value column (empty ones
\* included), without a name column, without a value column, and with the
\* quantity and price columns calculate_portfolio_values derives a value from.
Portfolios ==
  {NoTable}
    \cup TablesOver({"Stock Name", "Value"}, MaxRows)
    \cup TablesOver({"Value"}, MaxRows)
    \cup TablesOver({"Stock Name"}, MaxRows)
    \cup TablesOver({"Symbol", "Buy value", "Quantity", "Average buy price"}, MaxRows)

\* Factor tables a caller passes to calculate_stress_impact: the catalog's,
\* and tables that leave categories out.
FactorTables ==
  {ScenarioCatalog[s].factors : s \in ScenarioNames}
    \cup {[c \in {"tech_stocks"} |-> -45], [c \in {} |-> 0]}

\* The names compare_scenarios requests are lists of.
ComparedNames == {market_correction, tech_sector_crash, oil_shock}

\* The engines the second specification starts from: every sampled setup is
\* a portfolio with the model the engine was constructed with.
OneHolding ==
  Table({"Stock Name", "Value"},
        << [c \in {"Stock Name", "Value"} |-> IF c = "Value" THEN Num(3) ELSE HDFC] >>)

TwoHoldings ==
  Table({"Stock Name", "Value"},
        << [c \in {"Stock Name", "Value"} |-> IF c = "Value" THEN Num(1) ELSE InfyTech],
           [c \in {"Stock Name", "Value"} |-> IF c = "Value" THEN Num(3) ELSE HDFC] >>)

EngineSetups ==
  ({NoTable, Table({"Stock Name", "Value"}, <<>>), OneHolding, TwoHoldings} \X {"None"})
    \cup ({TwoHoldings} \X Models)
    \cup ({NoTable} \X {"ReturnsNone"})

-----------------------------------------------------------------------------
(* The state machines: a caller holding one portfolio calls the public     *)
(* operations in any order.  Spec calls the PortfolioAnalyzer, SpecEngine   *)
(* the StressTestingEngine and its ScenarioGenerator.                       *)

NoCall == [op |-> "none"]

Init ==
  /\ portfolio_data \in Portfolios
  /\ scenarios = ScenarioCatalog
  /\ model = "None"
  /\ call = NoCall

AnalyzePortfolio ==
  /\ call' = [op |-> "analyze_portfolio",
              result |-> analyze_portfolio(portfolio_data)]
  /\ UNCHANGED <<portfolio_data, scenarios, model>>

CalculateStressImpact ==
  \E scenario_factors \in FactorTables :
    \E result \in calculate_stress_impact(portfolio_data, scenario_factors) :
      /\ call' = [op |-> "calculate_stress_impact",
                  scenario_factors |-> scenario_factors,
                  result |-> result]
      /\ UNCHANGED <<portfolio_data, scenarios, model>>

Next == AnalyzePortfolio \/ CalculateStressImpact

Spec == Init /\ [][Next]_vars

InitEngine ==
  /\ \E setup \in EngineSetups :
       /\ portfolio_data = setup[1]
       /\ model = setup[2]
  /\ scenarios = ScenarioCatalog
  /\ call = NoCall

ListScenarios ==
  /\ call' = [op |-> "list_scenarios", result |-> list_scenarios(scenarios)]
  /\ UNCHANGED <<portfolio_data, scenarios, model>>

\* get_scenario with self.scenarios.setdefault(...) in place of .get(...): an
\* unknown name is stored in the catalog.
GetScenario_SetDefault ==
  \E name \in RequestedNames :
    /\ call' = [op |-> "get_scenario", name |-> name,
                result |-> get_scenario(scenarios, name)]
    /\ scenarios' = [n \in DOMAIN scenarios \cup {name} |->
                       IF n \in DOMAIN scenarios THEN scenarios[n]
                       ELSE scenarios[market_correction]]
    /\ UNCHANGED <<portfolio_data, model>>

GetScenario ==
  \E name \in RequestedNames :
    /\ call' = [op |-> "get_scenario", name |-> name,
                result |-> get_scenario(scenarios, name)]
    /\ UNCHANGED <<portfolio_data, scenarios, model>>

ExplainStressImpact ==
  \E scenario_name \in RequestedNames :
    \E result \in explain_stress_impact(scenarios, model, portfolio_data, scenario_name) :
      /\ call' = [op |-> "explain_stress_impact",
                  scenario_name |-> scenario_name,
                  result |-> result]
      /\ UNCHANGED <<portfolio_data, scenarios, model>>

CompareScenarios ==
  \E scenario_names \in SeqsUpTo(ComparedNames, MaxNames) :
    \E result \in compare_scenarios(scenarios, model, portfolio_data, scenario_names) :
      /\ call' = [op |-> "compare_scenarios",
                  scenario_names |-> scenario_names,
                  result |-> result]
      /\ UNCHANGED <<portfolio_data, scenarios, model>>

NextEngine == ListScenarios \/ GetScenario \/ ExplainStressImpact \/ CompareScenarios

SpecEngine == InitEngine /\ [][NextEngine]_vars

-----------------------------------------------------------------------------
(* Claims C1-C8, checked under Spec (the PortfolioAnalyzer).               *)

IsStressCall == call.op = "calculate_stress_impact"

IsAnalysisCall == call.op = "analyze_portfolio"

\* The sum the specification gives for total_impact.
ExpectedImpact(C, F) ==
  RatSum([c \in DOMAIN C |->
            RatMul(C[c], IF c \in DOMAIN F THEN Rat(F[c], 100) ELSE Rat(-5, 100))],
         DOMAIN C)

\* C1: whenever calculate_stress_impact analysed the portfolio and the
\* analysis gave composition C, total_impact is the sum over the categories c
\* of C of C[c] * F[c], a category of C missing from F counting with -0.05.
C1_TotalImpactIsWeightedSum ==
  (IsStressCall /\ "composition_effect" \in DOMAIN call.result) =>
    /\ call.result.composition_effect = analyze_portfolio(portfolio_data)
    /\ call.result.total_impact =
         ExpectedImpact(call.result.composition_effect.composition,
                        call.scenario_factors)

\* A composition computed from holdings with one category in the factor
\* table and one missing from it.
C1_Witness ==
  /\ IsStressCall
  /\ "composition_effect" \in DOMAIN call.result
  /\ call.result.value_calculation_method = "Value"
  /\ DOMAIN call.result.composition_effect.composition
       = {"large_cap_stocks", "tech_stocks"}
  /\ DOMAIN call.scenario_factors = {"tech_stocks"}
  /\ call.result.total_impact = Rat(-15, 100)

\* The strict-greater-than bands of |total_impact|, in integers.
Band(total_impact) ==
  LET a == Abs(total_impact.n)
      d == total_impact.d
  IN IF 100 * a > 25 * d THEN "Extreme"
     ELSE IF 100 * a > 15 * d THEN "High"
     ELSE IF 100 * a > 8 * d THEN "Medium"
     ELSE "Low"

\* C2: every result of calculate_stress_impact carries the risk level of the
\* strict band of |total_impact| (> 0.25 Extreme, > 0.15 High, > 0.08 Medium,
\* else Low), so exactly 0.08, 0.15 and 0.25 fall in the lower band.
C2_RiskLevelIsStrictBand ==
  IsStressCall => call.result.risk_level = Band(call.result.total_impact)

\* An impact of exactly -0.08, classified Low.
C2_Witness ==
  /\ IsStressCall
  /\ call.result.total_impact = Rat(-8, 100)
  /\ call.result.risk_level = "Low"

\* C3 (as claimed): every result of calculate_stress_impact, for a usable
\* portfolio or not, has recovery_months = (|total_impact| / 0.125) * 12 and
\* var_95 = total_impact * 1.5.
C3_DerivedFields ==
  IsStressCall =>
    /\ call.result.recovery_months = RatMul(RatAbs(call.result.total_impact), Rat(96, 1))
    /\ call.result.var_95 = RatMul(call.result.total_impact, Rat(3, 2))

\* C4 (as claimed): calculate_stress_impact called again with the same
\* portfolio and the same factors returns the same result.
C4_Deterministic ==
  [][ ( /\ IsStressCall
        /\ call'.op = "calculate_stress_impact"
        /\ call'.scenario_factors = call.scenario_factors
        /\ portfolio_data' = portfolio_data )
      => call'.result = call.result ]_vars

\* The fixed default composition.
DefaultComposition ==
  [ large_cap_stocks |-> Rat(60, 100), tech_stocks |-> Rat(15, 100),
    small_cap_stocks |-> Rat(15, 100), reits |-> Rat(5, 100), bonds |-> Rat(5, 100) ]

Recognised(candidates, df) == \E i \in 1..Len(candidates) : candidates[i] \in df.columns

\* The holdings table is None or empty, has no recognisable name or value
\* column, has total value <= 0, or has no holding with value > 0.
Degenerate(p) ==
  \/ p.isNone
  \/ p.rows = <<>>
  \/ LET df == calculate_portfolio_values(p)
     IN \/ ~Recognised(possible_value_columns, df)
        \/ ~Recognised(possible_name_columns, df)
        \/ LET value_col == get_value_column(df)
           IN \/ ColumnSum(df, value_col) <= 0
              \/ \A i \in 1..Len(df.rows) :
                   df.rows[i][value_col].nan \/ df.rows[i][value_col].v <= 0

\* C5: analyze_portfolio returns (it never raises) exactly the fixed default
\* composition whenever the holdings table is None or empty, has no
\* recognisable name or value column, has total value <= 0, or has no holding
\* with value > 0.
C5_DefaultOnDegenerate ==
  (IsAnalysisCall /\ Degenerate(portfolio_data)) =>
    call.result.composition = DefaultComposition

\* A table with both columns and rows whose values total <= 0.
C5_Witness ==
  /\ IsAnalysisCall
  /\ ~portfolio_data.isNone
  /\ portfolio_data.columns = {"Stock Name", "Value"}
  /\ Len(portfolio_data.rows) = 2
  /\ ColumnSum(portfolio_data, "Value") < 0
  /\ call.result.composition = DefaultComposition

WeightSum(composition) == RatSum(composition, DOMAIN composition)

\* Some row of the value column used was excluded for a non-positive value.
SomeExcluded(p) ==
  /\ ~p.isNone
  /\ LET df == calculate_portfolio_values(p)
         value_col == get_value_column(df)
     IN /\ value_col # NoColumn
        /\ \E i \in 1..Len(df.rows) :
             ~df.rows[i][value_col].nan /\ df.rows[i][value_col].v <= 0

\* C6 (as claimed): every composition analyze_portfolio returns has weights
\* >= 0 that sum to at most 1, and to less than 1 only when some holding was
\* excluded for a non-positive value.
C6_WeightsAtMostOne ==
  IsAnalysisCall =>
    LET composition == call.result.composition
    IN /\ \A c \in DOMAIN composition : composition[c].n >= 0
       /\ ~RatGreater(WeightSum(composition), Rat(1, 1))
       /\ RatGreater(Rat(1, 1), WeightSum(composition)) => SomeExcluded(portfolio_data)

\* The table has rows and every cell of the value column used is positive.
AllPositive(p) ==
  /\ ~p.isNone
  /\ p.rows # <<>>
  /\ LET df == calculate_portfolio_values(p)
         value_col == get_value_column(df)
     IN value_col # NoColumn =>
          \A i \in 1..Len(df.rows) :
            ~df.rows[i][value_col].nan /\ df.rows[i][value_col].v > 0

\* C7: for a non-empty holdings table whose values are all positive, the
\* weights of the composition analyze_portfolio returns sum to exactly 1, and
\* total_weight is 1.
C7_PositiveWeightsSumToOne ==
  (IsAnalysisCall /\ AllPositive(portfolio_data)) =>
    /\ WeightSum(call.result.composition) = Rat(1, 1)
    /\ call.result.total_weight = Rat(1, 1)

\* Two positive holdings of different categories, weighted 1/4 and 3/4.
C7_Witness ==
  /\ IsAnalysisCall
  /\ AllPositive(portfolio_data)
  /\ call.result.value_column_used = "Value"
  /\ call.result.composition =
       [large_cap_stocks |-> Rat(3, 4), tech_stocks |-> Rat(1, 4)]

\* C8 (as claimed): in every analysis analyze_portfolio returns,
\* concentration_risk is the sum of the squares of the weights of the
\* composition of that analysis.
C8_ConcentrationIsHerfindahl ==
  IsAnalysisCall =>
    call.result.concentration_risk =
      RatSum([c \in DOMAIN call.result.composition |->
                RatMul(call.result.composition[c], call.result.composition[c])],
             DOMAIN call.result.composition)

-----------------------------------------------------------------------------
(* Claims C9-C10, checked under SpecEngine (the StressTestingEngine).      *)

Unknown(name) == name \notin ScenarioNames

\* C9: a scenario name that is not in the catalog falls back to
\* market_correction: get_scenario returns the market_correction scenario, and
\* explain_stress_impact returns what it returns for market_correction, the
\* built-in impact being the weighted sum with market_correction's factors.
C9_UnknownNameFallsBack ==
  /\ (call.op = "get_scenario" /\ Unknown(call.name)) =>
       call.result = ScenarioCatalog[market_correction]
  /\ (call.op = "explain_stress_impact" /\ Unknown(call.scenario_name)) =>
       /\ call.result.scenario = ScenarioCatalog[market_correction]
       /\ call.result \in
            explain_stress_impact(ScenarioCatalog, model, portfolio_data, market_correction)
       /\ "composition_effect" \in DOMAIN call.result.stress_impact =>
            call.result.stress_impact.total_impact =
              ExpectedImpact(call.result.portfolio_analysis.composition,
                             Factors(-12, -18, -15, -10, 2, -8, -5, -25, 0))

\* explain_stress_impact of an unknown name on a 1/4 tech, 3/4 large-cap
\* portfolio: 0.25 * -0.15 + 0.75 * -0.12 = -0.1275.
C9_Witness ==
  /\ call.op = "explain_stress_impact"
  /\ call.scenario_name = oil_shock
  /\ model = "None"
  /\ call.result.scenario.name = "Market Correction"
  /\ call.result.stress_impact.total_impact = Rat(-1275, 10000)

\* C10 (as claimed): compare_scenarios skips every requested name that is not
\* in the catalog: the table has no row for it, and the rows are those of the
\* request without the unknown names.
C10_UnknownNamesSkipped ==
  call.op = "compare_scenarios" =>
    /\ \A i \in 1..Len(call.scenario_names) :
         Unknown(call.scenario_names[i]) =>
           \A j \in 1..Len(call.result) :
             call.result[j].scenario # Title(call.scenario_names[i])
    /\ call.result \in
         compare_scenarios(ScenarioCatalog, model, portfolio_data,
                           SelectSeq(call.scenario_names, LAMBDA n : ~Unknown(n)))

-----------------------------------------------------------------------------
(* Claims C11 and C19, checked under SpecEngine.                           *)

RECURSIVE IsSubsequence(_, _)
IsSubsequence(s, t) ==
  IF s = <<>> THEN TRUE
  ELSE IF t = <<>> THEN FALSE
  ELSE IF Head(s) = Head(t) THEN IsSubsequence(Tail(s), Tail(t))
  ELSE IsSubsequence(s, Tail(t))

\* The labels of the requested names, in request order, and the labels of the
\* returned rows that are rows of a requested name, in table order.
RequestedLabels == [i \in 1..Len(call.scenario_names) |-> Title(call.scenario_names[i])]

RowLabels ==
  LET labels == [j \in 1..Len(call.result) |-> call.result[j].scenario]
  IN SelectSeq(labels, LAMBDA l : \E i \in 1..Len(RequestedLabels) : RequestedLabels[i] = l)

\* C11: for a non-empty request, the rows compare_scenarios returns for the
\* requested names are in request order and each requested name produces at
\* most one row: the rows' labels are a subsequence of the request's labels.
C11_RowsInRequestOrder ==
  (call.op = "compare_scenarios" /\ call.scenario_names # <<>>) =>
    IsSubsequence(RowLabels, RequestedLabels)

\* Two different names requested, both producing a row, in request order.
C11_Witness ==
  /\ call.op = "compare_scenarios"
  /\ call.scenario_names = <<tech_sector_crash, market_correction>>
  /\ Len(call.result) = 2
  /\ call.result[1].scenario = Title(tech_sector_crash)
  /\ call.result[2].scenario = Title(market_correction)

\* C19: with the built-in analyzer, after any sequence of list_scenarios,
\* get_scenario, explain_stress_impact and compare_scenarios calls the catalog
\* holds the five scenarios it was constructed with, with the same factors,
\* descriptions and probabilities.
C19_CatalogNeverMutated ==
  ~HasPredictor(model) =>
    /\ DOMAIN scenarios = ScenarioNames
    /\ Cardinality(ScenarioNames) = 5
    /\ scenarios = ScenarioCatalog

\* After get_scenario of a name the catalog does not hold, answered with the
\* market_correction entry, the catalog is as constructed.
C19_Witness ==
  /\ call.op = "get_scenario"
  /\ call.name = oil_shock
  /\ call.result = ScenarioCatalog[market_correction]
  /\ ~HasPredictor(model)
  /\ oil_shock \notin DOMAIN scenarios
  /\ scenarios = ScenarioCatalog


-----------------------------------------------------------------------------
(* csv_utils: extract_holding_from_row and safe_float_conversion.          *)

\* A number (a cell of a numeric column) as opposed to a string, NaN or None.
IsNumber(value) == "nan" \in DOMAIN value

\* pd.notna(value)
NotNa(value) ==
  IF IsNumber(value) THEN ~value.nan ELSE value.kind \notin {"nan", "none"}

\* bool(value) of a value that is not NaN.
Truthy(value) ==
  IF IsNumber(value) THEN value.v # 0
  ELSE value.kind = "str" /\ value.s # <<>>

DigitChars == <<"0", "1", "2", "3", "4", "5", "6", "7", "8", "9">>

RECURSIVE Digits(_)
Digits(n) ==
  IF n < 10 THEN <<DigitChars[n + 1]>>
  ELSE Digits(n \div 10) \o <<DigitChars[(n % 10) + 1]>>

\* str(value): a string is itself, a float of a numeric column prints as
\* "3.0".
Str(value) ==
  IF IsNumber(value)
  THEN (IF value.v < 0 THEN <<"-">> ELSE <<>>) \o Digits(Abs(value.v)) \o <<".", "0">>
  ELSE value.s

\* column_map_lower: the lowered column names with the original ones, in
\* column order.
ColumnMapLower(columns) ==
  [i \in 1..Len(columns) |-> [lower |-> Lower(columns[i]), original |-> columns[i]]]

RECURSIVE find_column_case_insensitive(_, _)
find_column_case_insensitive(column_map_lower, patterns) ==
  IF patterns = <<>> THEN Nothing
  ELSE
    LET pattern_lower == Lower(Head(patterns))
        exact == {i \in DOMAIN column_map_lower :
                    column_map_lower[i].lower = pattern_lower}
        partial == {i \in DOMAIN column_map_lower :
                      \/ Contains(column_map_lower[i].lower, pattern_lower)
                      \/ Contains(pattern_lower, column_map_lower[i].lower)}
    IN IF exact # {}
       THEN Some(column_map_lower[CHOOSE i \in exact : TRUE].original)
       ELSE IF partial # {}
       THEN Some(column_map_lower[CHOOSE i \in partial : \A j \in partial : i <= j].original)
       ELSE find_column_case_insensitive(column_map_lower, Tail(patterns))

stock_name_patterns ==
  << <<"c", "o", "m", "p", "a", "n", "y">>,
     <<"s", "t", "o", "c", "k", " ", "n", "a", "m", "e">>,
     <<"s", "e", "c", "u", "r", "i", "t", "y", " ", "n", "a", "m", "e">>,
     <<"n", "a", "m", "e">>,
     <<"s", "c", "r", "i", "p">>,
     <<"s", "e", "c", "u", "r", "i", "t", "y">> >>

symbol_patterns ==
  << <<"s", "y", "m", "b", "o", "l">>,
     <<"t", "i", "c", "k", "e", "r">>,
     <<"s", "c", "r", "i", "p", " ", "c", "o", "d", "e">>,
     <<"n", "s", "e", " ", "s", "y", "m", "b", "o", "l">>,
     <<"b", "s", "e", " ", "s", "y", "m", "b", "o", "l">>,
     <<"t", "r", "a", "d", "i", "n", "g", " ", "s", "y", "m", "b", "o", "l">> >>

isin_patterns ==
  << <<"i", "s", "i", "n">>,
     <<"i", "s", "i", "n", " ", "c", "o", "d", "e">>,
     <<"i", "s", "i", "n", " ", "n", "u", "m", "b", "e", "r">> >>

\* row[col] if col and pd.notna(row[col]) else None
ValueAt(row, col) ==
  IF col.some /\ col.result # <<>> /\ NotNa(row[col.result]) THEN row[col.result]
  ELSE PyNone

\* The name, symbol and isin values extract_holding_from_row reads.
ReadFields(row, column_map_lower) ==
  [ stock_name |-> ValueAt(row, find_column_case_insensitive(column_map_lower, stock_name_patterns)),
    symbol |-> ValueAt(row, find_column_case_insensitive(column_map_lower, symbol_patterns)),
    isin |-> ValueAt(row, find_column_case_insensitive(column_map_lower, isin_patterns)) ]

PlaceholderNames ==
  { <<"n", "a", "n">>, <<"n", "o", "n", "e">>, <<>>, <<"n", "u", "l", "l">>, <<"n", "a">> }

\* A name kept as it was read, neither stripped nor dropped.
CleanName_Keep(stock_name) ==
  IF ~Truthy(stock_name) THEN stock_name ELSE StrCell(Str(stock_name))

\* `if stock_name:` strip it and drop it when it is empty or a placeholder.
CleanName(stock_name) ==
  IF ~Truthy(stock_name) THEN stock_name
  ELSE LET stripped == Strip(Str(stock_name))
       IN IF stripped = <<>> \/ Lower(stripped) \in PlaceholderNames THEN PyNone
          ELSE StrCell(stripped)

\* `if not stock_name and symbol:`
SalvageBySymbol(found, symbol) ==
  IF ~Truthy(found.stock_name) /\ Truthy(symbol)
  THEN [stock_name |-> StrCell(Strip(Str(symbol))), salvage_reason |-> "used_symbol"]
  ELSE found

\* The isin taken whenever there is one.
SalvageByIsin_Always(found, isin) ==
  IF Truthy(isin)
  THEN [stock_name |-> StrCell(Strip(Str(isin))), salvage_reason |-> "used_isin"]
  ELSE found

\* `if not stock_name and isin:`
SalvageByIsin(found, isin) ==
  IF ~Truthy(found.stock_name) /\ Truthy(isin)
  THEN [stock_name |-> StrCell(Strip(Str(isin))), salvage_reason |-> "used_isin"]
  ELSE found

\* Any non-null numeric value counted, zero included.
Meaningful_Zero(row, df) ==
  \E c \in df.numeric : NotNa(row[c])

\* Some column of numeric dtype holds a non-null value with float(val) != 0.
Meaningful(row, df) ==
  \E c \in df.numeric : NotNa(row[c]) /\ row[c].v # 0

\* f"Unknown-{symbol}", f"Unknown-{isin[:8]}" or "Unknown (salvaged row)"
SynthesizedName(symbol, isin) ==
  IF Truthy(symbol) THEN <<"U", "n", "k", "n", "o", "w", "n", "-">> \o Str(symbol)
  ELSE IF Truthy(isin)
  THEN <<"U", "n", "k", "n", "o", "w", "n", "-">> \o
       SubSeq(isin.s, 1, IF Len(isin.s) < 8 THEN Len(isin.s) ELSE 8)
  ELSE <<"U", "n", "k", "n", "o", "w", "n", " ", "(", "s", "a", "l", "v", "a", "g", "e", "d", " ", "r", "o", "w", ")">>

\* `if not stock_name:` the last resort.
SalvageByNumeric(found, row, df, symbol, isin) ==
  IF ~Truthy(found.stock_name) /\ Meaningful(row, df)
  THEN [stock_name |-> StrCell(SynthesizedName(symbol, isin)),
        salvage_reason |-> "salvaged_numeric"]
  ELSE found

\* The holding, or Nothing (None) when the row cannot be salvaged.
extract_holding_from_row(row, df, column_map_lower) ==
  LET fields == ReadFields(row, column_map_lower)
      named == [stock_name |-> CleanName(fields.stock_name), salvage_reason |-> "None"]
      by_symbol == SalvageBySymbol(named, fields.symbol)
      by_isin == SalvageByIsin(by_symbol, fields.isin)
      found == SalvageByNumeric(by_isin, row, df, fields.symbol, fields.isin)
  IN IF ~Truthy(found.stock_name) THEN Nothing
     ELSE Some([ stock_name |-> found.stock_name.s,
                 symbol |-> fields.symbol,
                 isin |-> fields.isin,
                 salvage_reason |-> found.salvage_reason,
                 raw_row |-> row ])

\* Floats: a finite number, an infinity or NaN.
Finite(r) == [kind |-> "finite", v |-> r]
Infinite(sign) == [kind |-> "inf", v |-> Rat(sign, 1)]
NotANumber == [kind |-> "nan", v |-> Rat(0, 1)]

RECURSIVE DigitsValue(_)
DigitsValue(ds) ==
  IF ds = <<>> THEN 0
  ELSE 10 * DigitsValue(SubSeq(ds, 1, Len(ds) - 1))
         + (CHOOSE i \in 1..10 : DigitChars[i] = ds[Len(ds)]) - 1

\* float(s) of a string: Some(float), or Nothing for a ValueError.  The
\* grammar is the part of Python's without exponents and underscores: an
\* optional sign, then inf, infinity or nan in any case, or digits with at
\* most one point.
float_of_str(s) ==
  LET t == Strip(s)
      signed == t # <<>> /\ Head(t) \in {"+", "-"}
      sign == IF signed /\ Head(t) = "-" THEN -1 ELSE 1
      body == IF signed THEN Tail(t) ELSE t
      dots == {i \in 1..Len(body) : body[i] = "."}
      dot == IF dots = {} THEN Len(body) + 1 ELSE CHOOSE i \in dots : TRUE
      int_part == SubSeq(body, 1, dot - 1)
      frac_part == SubSeq(body, dot + 1, Len(body))
      digits == int_part \o frac_part
  IN IF Lower(body) \in {<<"i", "n", "f">>, <<"i", "n", "f", "i", "n", "i", "t", "y">>} THEN Some(Infinite(sign))
     ELSE IF Lower(body) = <<"n", "a", "n">> THEN Some(NotANumber)
     ELSE IF /\ Cardinality(dots) <= 1
             /\ digits # <<>>
             /\ \A i \in 1..Len(digits) : (\E d \in 1..10 : DigitChars[d] = digits[i])
     THEN Some(Finite(Rat(sign * DigitsValue(digits), DigitsValue(<<"1">> \o [i \in 1..Len(frac_part) |-> "0"]))))
     ELSE Nothing

\* value.replace(c, '') for every c of chars.
Without(s, chars) == SelectSeq(s, LAMBDA c : c \notin chars)

safe_float_conversion(value) ==
  IF ~NotNa(value) THEN Finite(Rat(0, 1))
  ELSE IF IsNumber(value) THEN Finite(Rat(value.v, 1))
  ELSE
    LET bare == Without(value.s, {"₹", "$", "€", "£"})
        joined == Strip(Without(bare, {",", " "}))
        unquoted == Strip(Without(joined, {"\"", "'"}))
        cleaned == IF Contains(unquoted, <<"(">>) /\ Contains(unquoted, <<")">>)
                   THEN <<"-">> \o Without(unquoted, {"(", ")"})
                   ELSE unquoted
        parsed == float_of_str(cleaned)
    IN IF parsed.some THEN parsed.result ELSE Finite(Rat(0, 1))

\* The sampled rows: a DataFrame's columns, those of numeric dtype, and one
\* of its rows.
CsvColumn ==
  [ company |-> <<"C", "o", "m", "p", "a", "n", "y">>, symbol |-> <<"S", "y", "m", "b", "o", "l">>, isin |-> <<"I", "S", "I", "N">>, qty |-> <<"Q", "t", "y">>,
    trading_symbol |-> <<"T", "r", "a", "d", "i", "n", "g", " ", "S", "y", "m", "b", "o", "l">>, isin_code |-> <<"I", "S", "I", "N", " ", "C", "o", "d", "e">>,
    scrip_code |-> <<"S", "c", "r", "i", "p", " ", "C", "o", "d", "e">>, value |-> <<"V", "a", "l", "u", "e">>,
    company_code |-> <<"C", "o", "m", "p", "a", "n", "y", " ", "C", "o", "d", "e">>, name |-> <<"N", "a", "m", "e">> ]

CsvLayouts ==
  { [columns |-> <<CsvColumn.company, CsvColumn.symbol, CsvColumn.isin, CsvColumn.qty>>, numeric |-> {CsvColumn.qty}],
    [columns |-> <<CsvColumn.trading_symbol, CsvColumn.isin_code, CsvColumn.qty>>, numeric |-> {CsvColumn.qty}],
    [columns |-> <<CsvColumn.scrip_code, CsvColumn.qty>>, numeric |-> {CsvColumn.scrip_code, CsvColumn.qty}],
    [columns |-> <<CsvColumn.company, CsvColumn.value>>, numeric |-> {}],
    [columns |-> <<CsvColumn.company_code, CsvColumn.name>>, numeric |-> {}] }

CsvCells(col) ==
  CASE col = CsvColumn.company ->
         {NaNName, StrCell(<<"T", "C", "S">>), StrCell(<<" ">>), StrCell(<<>>), StrCell(<<"N", "A">>)}
    [] col \in {CsvColumn.symbol, CsvColumn.trading_symbol} ->
         {NaNName, StrCell(<<" ", "I", "N", "F", "Y">>), StrCell(<<" ">>), StrCell(<<"n", "a", "n">>)}
    [] col \in {CsvColumn.isin, CsvColumn.isin_code} ->
         {NaNName, StrCell(<<"I", "N", "E", "0", "0", "9", "A", "0", "1", "0", "2", "1">>), StrCell(<<" ">>)}
    [] col = CsvColumn.company_code -> {NaNName, StrCell(<<"C", "0", "1">>)}
    [] col = CsvColumn.name -> {NaNName, StrCell(<<"T", "C", "S">>)}
    [] col = CsvColumn.qty -> {NaN, Num(0), Num(3)}
    [] col = CsvColumn.scrip_code -> {NaN, Num(0), Num(500)}
    [] col = CsvColumn.value ->
         { NaNName, PyNone,
           StrCell(<<"₹", "1", ",", "2", "3", "4", ".", "5", "0">>),
           StrCell(<<"(", "5", "0", "0", ")">>),
           StrCell(<<>>),
           StrCell(<<"a", "b", "c">>),
           StrCell(<<"n", "a", "n">>),
           StrCell(<<"i", "n", "f">>),
           StrCell(<<"-", "I", "n", "f", "i", "n", "i", "t", "y">>),
           StrCell(<<"$", " ", "7">>),
           StrCell(<<"'", "3", "'">>),
           StrCell(<<"-", "(", "5", ")">>) }

CsvInputs ==
  UNION { { [df |-> df, row |-> row] :
            row \in { r \in [{df.columns[i] : i \in 1..Len(df.columns)} ->
                               UNION {CsvCells(df.columns[i]) : i \in 1..Len(df.columns)}] :
                      \A i \in 1..Len(df.columns) : r[df.columns[i]] \in CsvCells(df.columns[i]) } } :
          df \in CsvLayouts }

\* The third specification: a caller holding one row of an uploaded table
\* extracts its holding and converts its cells.
InitCsv ==
  /\ portfolio_data \in CsvInputs
  /\ scenarios = ScenarioCatalog
  /\ model = "None"
  /\ call = NoCall

ExtractHoldingFromRow ==
  /\ call' = [op |-> "extract_holding_from_row",
              result |-> extract_holding_from_row(
                           portfolio_data.row, portfolio_data.df,
                           ColumnMapLower(portfolio_data.df.columns))]
  /\ UNCHANGED <<portfolio_data, scenarios, model>>

FindColumnCaseInsensitive ==
  \E patterns \in {stock_name_patterns, symbol_patterns, isin_patterns} :
    /\ call' = [op |-> "find_column_case_insensitive",
                patterns |-> patterns,
                result |-> find_column_case_insensitive(
                             ColumnMapLower(portfolio_data.df.columns), patterns)]
    /\ UNCHANGED <<portfolio_data, scenarios, model>>

SafeFloatConversion ==
  \E i \in 1..Len(portfolio_data.df.columns) :
    LET value == portfolio_data.row[portfolio_data.df.columns[i]]
    IN /\ call' = [op |-> "safe_float_conversion",
                   value |-> value,
                   result |-> safe_float_conversion(value)]
       /\ UNCHANGED <<portfolio_data, scenarios, model>>

NextCsv == ExtractHoldingFromRow \/ FindColumnCaseInsensitive \/ SafeFloatConversion

SpecCsv == InitCsv /\ [][NextCsv]_vars

-----------------------------------------------------------------------------
(* Claims C12-C14 and C20, checked under SpecCsv.                          *)

IsExtractCall == call.op = "extract_holding_from_row"

\* The name, symbol and ISIN the row holds under its layout's columns.
RowFields ==
  ReadFields(portfolio_data.row, ColumnMapLower(portfolio_data.df.columns))

\* A field that is missing (no column, None or NaN) or a blank string.
AbsentOrBlank(value) ==
  ~IsNumber(value) /\ (value.kind \in {"none", "nan"} \/ Strip(value.s) = <<>>)

\* A field that holds something: a non-blank string or a nonzero number (a
\* numeric 0 reads as absent, it is falsy).
Present(value) ==
  IF IsNumber(value) THEN ~value.nan /\ value.v # 0 ELSE ~AbsentOrBlank(value)

\* The name field holds a name: something that is no placeholder.
NamePresent ==
  /\ Present(RowFields.stock_name)
  /\ Lower(Strip(Str(RowFields.stock_name))) \notin PlaceholderNames

SomeNumericNonzero ==
  \E c \in portfolio_data.df.numeric :
    ~portfolio_data.row[c].nan /\ portfolio_data.row[c].v # 0

AllIdentityBlank ==
  /\ AbsentOrBlank(RowFields.stock_name)
  /\ AbsentOrBlank(RowFields.symbol)
  /\ AbsentOrBlank(RowFields.isin)

\* C12: for a row whose name, symbol and ISIN are all absent or blank,
\* extract_holding_from_row returns a holding exactly when some numeric column
\* holds a non-null nonzero value; the holding then has salvage_reason
\* 'salvaged_numeric' and a non-empty name; otherwise nothing is returned.
C12_NumericSalvage ==
  (IsExtractCall /\ AllIdentityBlank) =>
    /\ call.result.some <=> SomeNumericNonzero
    /\ call.result.some =>
         /\ call.result.result.salvage_reason = "salvaged_numeric"
         /\ Strip(call.result.result.stock_name) # <<>>

\* A row with no name, a blank symbol, no ISIN and a quantity of 3.
C12_Witness ==
  /\ IsExtractCall
  /\ AllIdentityBlank
  /\ RowFields.symbol = StrCell(<<" ">>)
  /\ SomeNumericNonzero
  /\ call.result.some
  /\ call.result.result.salvage_reason = "salvaged_numeric"
  /\ call.result.result.stock_name = <<"U", "n", "k", "n", "o", "w", "n", "-", " ">>

\* C13: every holding extract_holding_from_row returns has a stock_name that
\* is not empty and not whitespace, and its salvage_reason is none exactly
\* when the row's own name field supplied the name; otherwise it is one of
\* used_symbol, used_isin, salvaged_numeric.
C13_HoldingHasName ==
  (IsExtractCall /\ call.result.some) =>
    LET holding == call.result.result
    IN /\ Strip(holding.stock_name) # <<>>
       /\ holding.salvage_reason = "None" <=>
            (NamePresent /\ holding.stock_name = Strip(Str(RowFields.stock_name)))
       /\ holding.salvage_reason \in
            {"None", "used_symbol", "used_isin", "salvaged_numeric"}

\* A row whose name field is a blank string and whose ISIN names the holding.
C13_Witness ==
  /\ IsExtractCall
  /\ RowFields.stock_name = StrCell(<<" ">>)
  /\ call.result.some
  /\ call.result.result.stock_name = <<"I", "N", "E", "0", "0", "9", "A", "0", "1", "0", "2", "1">>
  /\ call.result.result.salvage_reason = "used_isin"

\* C14 (as claimed): safe_float_conversion returns a finite number for every
\* input, and 0.0 for None, NaN, the empty string and the strings 'nan' and
\* 'inf'.
C14_AlwaysFinite ==
  call.op = "safe_float_conversion" =>
    /\ call.result.kind = "finite"
    /\ call.value \in {PyNone, NaNName, StrCell(<<>>), StrCell(<<"n", "a", "n">>), StrCell(<<"i", "n", "f">>)} =>
         call.result = Finite(Rat(0, 1))

-----------------------------------------------------------------------------
(* ticker_mapper and sector_utils: the lookups in the fixed tables.        *)

\* The tables, in the order of the dict literals.
STOCK_NAME_TO_TICKER ==
  <<
     [key |-> <<"B", "A", "N", "K", " ", "O", "F", " ", "B", "A", "R", "O", "D", "A">>, ticker |-> <<"B", "A", "N", "K", "B", "A", "R", "O", "D", "A", ".", "N", "S">>],
     [key |-> <<"B", "A", "N", "K", " ", "O", "F", " ", "M", "A", "H", "A", "R", "A", "S", "H", "T", "R", "A">>, ticker |-> <<"M", "A", "H", "A", "B", "A", "N", "K", ".", "N", "S">>],
     [key |-> <<"C", "E", "N", "T", "R", "A", "L", " ", "B", "A", "N", "K", " ", "O", "F", " ", "I", "N", "D", "I", "A">>, ticker |-> <<"C", "E", "N", "T", "R", "A", "L", "B", "K", ".", "N", "S">>],
     [key |-> <<"C", "E", "N", "T", "R", "A", "L", " ", "B", "A", "N", "K">>, ticker |-> <<"C", "E", "N", "T", "R", "A", "L", "B", "K", ".", "N", "S">>],
     [key |-> <<"I", "N", "D", "I", "A", "N", " ", "B", "A", "N", "K">>, ticker |-> <<"I", "N", "D", "I", "A", "N", "B", ".", "N", "S">>],
     [key |-> <<"P", "U", "N", "J", "A", "B", " ", "N", "A", "T", "I", "O", "N", "A", "L", " ", "B", "A", "N", "K">>, ticker |-> <<"P", "N", "B", ".", "N", "S">>],
     [key |-> <<"S", "T", "A", "T", "E", " ", "B", "A", "N", "K", " ", "O", "F", " ", "I", "N", "D", "I", "A">>, ticker |-> <<"S", "B", "I", "N", ".", "N", "S">>],
     [key |-> <<"U", "N", "I", "O", "N", " ", "B", "A", "N", "K", " ", "O", "F", " ", "I", "N", "D", "I", "A">>, ticker |-> <<"U", "N", "I", "O", "N", "B", "A", "N", "K", ".", "N", "S">>],
     [key |-> <<"C", "A", "N", "A", "R", "A", " ", "B", "A", "N", "K">>, ticker |-> <<"C", "A", "N", "B", "K", ".", "N", "S">>],
     [key |-> <<"P", "O", "W", "E", "R", " ", "G", "R", "I", "D", " ", "C", "O", "R", "P", "O", "R", "A", "T", "I", "O", "N">>, ticker |-> <<"P", "O", "W", "E", "R", "G", "R", "I", "D", ".", "N", "S">>],
     [key |-> <<"P", "O", "W", "E", "R", " ", "G", "R", "I", "D">>, ticker |-> <<"P", "O", "W", "E", "R", "G", "R", "I", "D", ".", "N", "S">>],
     [key |-> <<"P", "O", "W", "E", "R", " ", "F", "I", "N", " ", "C", "O", "R", "P">>, ticker |-> <<"P", "F", "C", ".", "N", "S">>],
     [key |-> <<"P", "O", "W", "E", "R", " ", "F", "I", "N", "A", "N", "C", "E", " ", "C", "O", "R", "P", "O", "R", "A", "T", "I", "O", "N">>, ticker |-> <<"P", "F", "C", ".", "N", "S">>],
     [key |-> <<"N", "T", "P", "C">>, ticker |-> <<"N", "T", "P", "C", ".", "N", "S">>],
     [key |-> <<"C", "O", "A", "L", " ", "I", "N", "D", "I", "A">>, ticker |-> <<"C", "O", "A", "L", "I", "N", "D", "I", "A", ".", "N", "S">>],
     [key |-> <<"O", "I", "L", " ", "A", "N", "D", " ", "N", "A", "T", "U", "R", "A", "L", " ", "G", "A", "S", " ", "C", "O", "R", "P">>, ticker |-> <<"O", "N", "G", "C", ".", "N", "S">>],
     [key |-> <<"O", "I", "L", " ", "A", "N", "D", " ", "N", "A", "T", "U", "R", "A", "L", " ", "G", "A", "S", " ", "C", "O", "R", "P", "O", "R", "A", "T", "I", "O", "N">>, ticker |-> <<"O", "N", "G", "C", ".", "N", "S">>],
     [key |-> <<"O", "I", "L", " ", "I", "N", "D", "I", "A">>, ticker |-> <<"O", "I", "L", ".", "N", "S">>],
     [key |-> <<"I", "N", "D", "I", "A", "N", " ", "O", "I", "L", " ", "C", "O", "R", "P">>, ticker |-> <<"I", "O", "C", ".", "N", "S">>],
     [key |-> <<"I", "N", "D", "I", "A", "N", " ", "O", "I", "L", " ", "C", "O", "R", "P", "O", "R", "A", "T", "I", "O", "N">>, ticker |-> <<"I", "O", "C", ".", "N", "S">>],
     [key |-> <<"B", "H", "A", "R", "A", "T", " ", "P", "E", "T", "R", "O", "L", "E", "U", "M">>, ticker |-> <<"B", "P", "C", "L", ".", "N", "S">>],
     [key |-> <<"H", "I", "N", "D", "U", "S", "T", "A", "N", " ", "P", "E", "T", "R", "O", "L", "E", "U", "M", " ", "C", "O", "R", "P">>, ticker |-> <<"H", "I", "N", "D", "P", "E", "T", "R", "O", ".", "N", "S">>],
     [key |-> <<"H", "I", "N", "D", "U", "S", "T", "A", "N", " ", "P", "E", "T", "R", "O", "L", "E", "U", "M">>, ticker |-> <<"H", "I", "N", "D", "P", "E", "T", "R", "O", ".", "N", "S">>],
     [key |-> <<"G", "A", "I", "L", " ", "(", "I", "N", "D", "I", "A", ")">>, ticker |-> <<"G", "A", "I", "L", ".", "N", "S">>],
     [key |-> <<"G", "A", "I", "L">>, ticker |-> <<"G", "A", "I", "L", ".", "N", "S">>],
     [key |-> <<"N", "L", "C", " ", "I", "N", "D", "I", "A">>, ticker |-> <<"N", "L", "C", "I", "N", "D", "I", "A", ".", "N", "S">>],
     [key |-> <<"B", "H", "A", "R", "T", "I", " ", "A", "I", "R", "T", "E", "L">>, ticker |-> <<"B", "H", "A", "R", "T", "I", "A", "R", "T", "L", ".", "N", "S">>],
     [key |-> <<"R", "E", "L", "I", "A", "N", "C", "E", " ", "J", "I", "O">>, ticker |-> <<"R", "E", "L", "I", "A", "N", "C", "E", ".", "N", "S">>],
     [key |-> <<"J", "I", "O", " ", "F", "I", "N", " ", "S", "E", "R", "V", "I", "C", "E", "S">>, ticker |-> <<"J", "I", "O", "F", "I", "N", ".", "N", "S">>],
     [key |-> <<"J", "I", "O">>, ticker |-> <<"J", "I", "O", "F", "I", "N", ".", "N", "S">>],
     [key |-> <<"H", "I", "N", "D", "U", "S", "T", "A", "N", " ", "A", "E", "R", "O", "N", "A", "U", "T", "I", "C", "S">>, ticker |-> <<"H", "A", "L", ".", "N", "S">>],
     [key |-> <<"B", "H", "A", "R", "A", "T", " ", "E", "L", "E", "C", "T", "R", "O", "N", "I", "C", "S">>, ticker |-> <<"B", "E", "L", ".", "N", "S">>],
     [key |-> <<"M", "A", "Z", "A", "G", "O", "N", " ", "D", "O", "C", "K", " ", "S", "H", "I", "P", "B", "U", "I", "L", "D", "E", "R", "S">>, ticker |-> <<"M", "A", "Z", "D", "O", "C", "K", ".", "N", "S">>],
     [key |-> <<"B", "H", "A", "R", "A", "T", " ", "D", "Y", "N", "A", "M", "I", "C", "S">>, ticker |-> <<"B", "D", "L", ".", "N", "S">>],
     [key |-> <<"T", "A", "T", "A", " ", "C", "O", "N", "S", "U", "L", "T", "A", "N", "C", "Y", " ", "S", "E", "R", "V", "I", "C", "E", "S">>, ticker |-> <<"T", "C", "S", ".", "N", "S">>],
     [key |-> <<"I", "N", "F", "O", "S", "Y", "S">>, ticker |-> <<"I", "N", "F", "Y", ".", "N", "S">>],
     [key |-> <<"W", "I", "P", "R", "O">>, ticker |-> <<"W", "I", "P", "R", "O", ".", "N", "S">>],
     [key |-> <<"H", "C", "L", " ", "T", "E", "C", "H", "N", "O", "L", "O", "G", "I", "E", "S">>, ticker |-> <<"H", "C", "L", "T", "E", "C", "H", ".", "N", "S">>],
     [key |-> <<"T", "E", "C", "H", " ", "M", "A", "H", "I", "N", "D", "R", "A">>, ticker |-> <<"T", "E", "C", "H", "M", ".", "N", "S">>],
     [key |-> <<"T", "A", "T", "A", " ", "M", "O", "T", "O", "R", "S">>, ticker |-> <<"T", "A", "T", "A", "M", "O", "T", "O", "R", "S", ".", "N", "S">>],
     [key |-> <<"T", "A", "T", "A", " ", "M", "O", "T", "O", "R", "S", " ", "P", "A", "S", "S", " ", "V", "E", "H">>, ticker |-> <<"T", "A", "T", "A", "M", "O", "T", "O", "R", "S", ".", "N", "S">>],
     [key |-> <<"M", "A", "R", "U", "T", "I", " ", "S", "U", "Z", "U", "K", "I">>, ticker |-> <<"M", "A", "R", "U", "T", "I", ".", "N", "S">>],
     [key |-> <<"M", "A", "H", "I", "N", "D", "R", "A", " ", "&", " ", "M", "A", "H", "I", "N", "D", "R", "A">>, ticker |-> <<"M", "&", "M", ".", "N", "S">>],
     [key |-> <<"N", "M", "D", "C">>, ticker |-> <<"N", "M", "D", "C", ".", "N", "S">>],
     [key |-> <<"S", "T", "E", "E", "L", " ", "A", "U", "T", "H", "O", "R", "I", "T", "Y", " ", "O", "F", " ", "I", "N", "D", "I", "A">>, ticker |-> <<"S", "A", "I", "L", ".", "N", "S">>],
     [key |-> <<"T", "A", "T", "A", " ", "S", "T", "E", "E", "L">>, ticker |-> <<"T", "A", "T", "A", "S", "T", "E", "E", "L", ".", "N", "S">>],
     [key |-> <<"H", "I", "N", "D", "A", "L", "C", "O">>, ticker |-> <<"H", "I", "N", "D", "A", "L", "C", "O", ".", "N", "S">>],
     [key |-> <<"I", "R", "C", "O", "N", " ", "I", "N", "T", "E", "R", "N", "A", "T", "I", "O", "N", "A", "L">>, ticker |-> <<"I", "R", "C", "O", "N", ".", "N", "S">>],
     [key |-> <<"R", "I", "T", "E", "S">>, ticker |-> <<"R", "I", "T", "E", "S", ".", "N", "S">>],
     [key |-> <<"R", "E", "C">>, ticker |-> <<"R", "E", "C", "L", "T", "D", ".", "N", "S">>],
     [key |-> <<"C", "E", "N", "T", "R", "A", "L", " ", "D", "E", "P", "O", " ", "S", "E", "R", " ", "(", "I", ")">>, ticker |-> <<"C", "D", "S", "L", ".", "N", "S">>],
     [key |-> <<"C", "E", "N", "T", "R", "A", "L", " ", "D", "E", "P", "O", "S", "I", "T", "O", "R", "Y", " ", "S", "E", "R", "V", "I", "C", "E", "S">>, ticker |-> <<"C", "D", "S", "L", ".", "N", "S">>],
     [key |-> <<"S", "U", "Z", "L", "O", "N", " ", "E", "N", "E", "R", "G", "Y">>, ticker |-> <<"S", "U", "Z", "L", "O", "N", ".", "N", "S">>],
     [key |-> <<"S", "U", "Z", "L", "O", "N">>, ticker |-> <<"S", "U", "Z", "L", "O", "N", ".", "N", "S">>],
     [key |-> <<"T", "A", "T", "A", " ", "C", "A", "P", "I", "T", "A", "L">>, ticker |-> <<"T", "A", "T", "A", "C", "A", "P", "I", "T", "A", "L", ".", "N", "S">>],
     [key |-> <<"R", "E", "L", "I", "A", "N", "C", "E", " ", "I", "N", "D", "U", "S", "T", "R", "I", "E", "S">>, ticker |-> <<"R", "E", "L", "I", "A", "N", "C", "E", ".", "N", "S">>],
     [key |-> <<"R", "E", "L", "I", "A", "N", "C", "E">>, ticker |-> <<"R", "E", "L", "I", "A", "N", "C", "E", ".", "N", "S">>],
     [key |-> <<"I", "T", "C">>, ticker |-> <<"I", "T", "C", ".", "N", "S">>],
     [key |-> <<"H", "D", "F", "C", " ", "B", "A", "N", "K">>, ticker |-> <<"H", "D", "F", "C", "B", "A", "N", "K", ".", "N", "S">>],
     [key |-> <<"I", "C", "I", "C", "I", " ", "B", "A", "N", "K">>, ticker |-> <<"I", "C", "I", "C", "I", "B", "A", "N", "K", ".", "N", "S">>],
     [key |-> <<"A", "X", "I", "S", " ", "B", "A", "N", "K">>, ticker |-> <<"A", "X", "I", "S", "B", "A", "N", "K", ".", "N", "S">>],
     [key |-> <<"G", "R", "A", "P", "H", "I", "T", "E", " ", "I", "N", "D", "I", "A">>, ticker |-> <<"G", "R", "A", "P", "H", "I", "T", "E", ".", "N", "S">>],
     [key |-> <<"M", "A", "D", "H", "A", "V", " ", "C", "O", "P", "P", "E", "R">>, ticker |-> <<"M", "A", "D", "H", "A", "V", ".", "N", "S">>],
     [key |-> <<"M", "A", "D", "H", "A", "V", " ", "I", "N", "F", "R", "A", " ", "P", "R", "O", "J", "E", "C", "T", "S">>, ticker |-> <<"M", "A", "D", "H", "A", "V", ".", "N", "S">>],
     [key |-> <<"C", "H", "O", "I", "C", "E", " ", "I", "N", "T", "E", "R", "N", "A", "T", "I", "O", "N", "A", "L">>, ticker |-> <<"C", "H", "O", "I", "C", "E", "I", "N", ".", "N", "S">>],
     [key |-> <<"C", "H", "O", "I", "C", "E">>, ticker |-> <<"C", "H", "O", "I", "C", "E", "I", "N", ".", "N", "S">>],
     [key |-> <<"T", "A", "T", "A", "A", "M", "L", "-", "T", "A", "T", "S", "I", "L", "V">>, ticker |-> <<"T", "A", "T", "A", "A", "M", "C", ".", "N", "S">>] >>

ISIN_TO_TICKER ==
  <<
     [key |-> <<"I", "N", "E", "0", "2", "8", "A", "0", "1", "0", "3", "9">>, ticker |-> <<"B", "A", "N", "K", "B", "A", "R", "O", "D", "A", ".", "N", "S">>],
     [key |-> <<"I", "N", "E", "4", "8", "3", "A", "0", "1", "0", "1", "0">>, ticker |-> <<"C", "E", "N", "T", "R", "A", "L", "B", "K", ".", "N", "S">>],
     [key |-> <<"I", "N", "E", "5", "6", "2", "A", "0", "1", "0", "1", "1">>, ticker |-> <<"I", "N", "D", "I", "A", "N", "B", ".", "N", "S">>],
     [key |-> <<"I", "N", "E", "1", "6", "0", "A", "0", "1", "0", "2", "2">>, ticker |-> <<"P", "N", "B", ".", "N", "S">>],
     [key |-> <<"I", "N", "E", "0", "6", "2", "A", "0", "1", "0", "2", "0">>, ticker |-> <<"S", "B", "I", "N", ".", "N", "S">>],
     [key |-> <<"I", "N", "E", "6", "9", "2", "A", "0", "1", "0", "1", "6">>, ticker |-> <<"U", "N", "I", "O", "N", "B", "A", "N", "K", ".", "N", "S">>],
     [key |-> <<"I", "N", "E", "7", "5", "2", "E", "0", "1", "0", "1", "0">>, ticker |-> <<"P", "O", "W", "E", "R", "G", "R", "I", "D", ".", "N", "S">>],
     [key |-> <<"I", "N", "E", "7", "3", "3", "E", "0", "1", "0", "1", "0">>, ticker |-> <<"N", "T", "P", "C", ".", "N", "S">>],
     [key |-> <<"I", "N", "E", "5", "2", "2", "F", "0", "1", "0", "1", "4">>, ticker |-> <<"C", "O", "A", "L", "I", "N", "D", "I", "A", ".", "N", "S">>],
     [key |-> <<"I", "N", "E", "2", "1", "3", "A", "0", "1", "0", "2", "9">>, ticker |-> <<"O", "N", "G", "C", ".", "N", "S">>],
     [key |-> <<"I", "N", "E", "2", "7", "4", "J", "0", "1", "0", "1", "4">>, ticker |-> <<"O", "I", "L", ".", "N", "S">>],
     [key |-> <<"I", "N", "E", "2", "4", "2", "A", "0", "1", "0", "1", "0">>, ticker |-> <<"I", "O", "C", ".", "N", "S">>],
     [key |-> <<"I", "N", "E", "1", "7", "1", "A", "0", "1", "0", "2", "9">>, ticker |-> <<"B", "P", "C", "L", ".", "N", "S">>],
     [key |-> <<"I", "N", "E", "0", "9", "4", "A", "0", "1", "0", "1", "5">>, ticker |-> <<"H", "I", "N", "D", "P", "E", "T", "R", "O", ".", "N", "S">>],
     [key |-> <<"I", "N", "E", "1", "2", "9", "A", "0", "1", "0", "1", "9">>, ticker |-> <<"G", "A", "I", "L", ".", "N", "S">>],
     [key |-> <<"I", "N", "E", "5", "8", "9", "A", "0", "1", "0", "1", "4">>, ticker |-> <<"N", "L", "C", "I", "N", "D", "I", "A", ".", "N", "S">>],
     [key |-> <<"I", "N", "E", "3", "9", "7", "D", "0", "1", "0", "2", "4">>, ticker |-> <<"B", "H", "A", "R", "T", "I", "A", "R", "T", "L", ".", "N", "S">>],
     [key |-> <<"I", "N", "E", "0", "0", "2", "A", "0", "1", "0", "1", "8">>, ticker |-> <<"R", "E", "L", "I", "A", "N", "C", "E", ".", "N", "S">>],
     [key |-> <<"I", "N", "E", "4", "6", "7", "B", "0", "1", "0", "2", "9">>, ticker |-> <<"T", "C", "S", ".", "N", "S">>],
     [key |-> <<"I", "N", "E", "0", "0", "9", "A", "0", "1", "0", "2", "1">>, ticker |-> <<"I", "N", "F", "Y", ".", "N", "S">>],
     [key |-> <<"I", "N", "E", "0", "7", "5", "A", "0", "1", "0", "2", "2">>, ticker |-> <<"W", "I", "P", "R", "O", ".", "N", "S">>],
     [key |-> <<"I", "N", "E", "8", "6", "0", "A", "0", "1", "0", "2", "7">>, ticker |-> <<"H", "C", "L", "T", "E", "C", "H", ".", "N", "S">>],
     [key |-> <<"I", "N", "E", "0", "4", "0", "A", "0", "1", "0", "3", "4">>, ticker |-> <<"H", "D", "F", "C", "B", "A", "N", "K", ".", "N", "S">>],
     [key |-> <<"I", "N", "E", "0", "9", "0", "A", "0", "1", "0", "2", "1">>, ticker |-> <<"I", "C", "I", "C", "I", "B", "A", "N", "K", ".", "N", "S">>],
     [key |-> <<"I", "N", "E", "2", "3", "8", "A", "0", "1", "0", "3", "4">>, ticker |-> <<"A", "X", "I", "S", "B", "A", "N", "K", ".", "N", "S">>],
     [key |-> <<"I", "N", "E", "1", "5", "4", "A", "0", "1", "0", "2", "5">>, ticker |-> <<"I", "T", "C", ".", "N", "S">>],
     [key |-> <<"I", "N", "E", "1", "0", "1", "A", "0", "1", "0", "2", "6">>, ticker |-> <<"M", "A", "R", "U", "T", "I", ".", "N", "S">>],
     [key |-> <<"I", "N", "E", "1", "5", "5", "A", "0", "1", "0", "2", "2">>, ticker |-> <<"T", "A", "T", "A", "M", "O", "T", "O", "R", "S", ".", "N", "S">>],
     [key |-> <<"I", "N", "E", "1", "0", "1", "D", "0", "1", "0", "2", "0">>, ticker |-> <<"N", "M", "D", "C", ".", "N", "S">>],
     [key |-> <<"I", "N", "E", "2", "0", "2", "A", "0", "1", "0", "1", "9">>, ticker |-> <<"R", "E", "C", "L", "T", "D", ".", "N", "S">>],
     [key |-> <<"I", "N", "E", "1", "3", "4", "E", "0", "1", "0", "1", "1">>, ticker |-> <<"P", "F", "C", ".", "N", "S">>],
     [key |-> <<"I", "N", "E", "1", "3", "9", "A", "0", "1", "0", "3", "4">>, ticker |-> <<"S", "U", "Z", "L", "O", "N", ".", "N", "S">>],
     [key |-> <<"I", "N", "E", "4", "4", "8", "A", "0", "1", "0", "1", "3">>, ticker |-> <<"R", "I", "T", "E", "S", ".", "N", "S">>],
     [key |-> <<"I", "N", "E", "2", "5", "5", "A", "0", "1", "0", "2", "0">>, ticker |-> <<"G", "R", "A", "P", "H", "I", "T", "E", ".", "N", "S">>] >>

suffixes_to_remove ==
  << <<" ", "L", "I", "M", "I", "T", "E", "D">>,
     <<" ", "L", "T", "D", ".">>,
     <<" ", "L", "T", "D">>,
     <<" ", "C", "O", "R", "P", ".">>,
     <<" ", "C", "O", "R", "P">>,
     <<" ", "C", "O", "R", "P", "O", "R", "A", "T", "I", "O", "N">>,
     <<" ", "I", "N", "C", ".">>,
     <<" ", "I", "N", "C">>,
     <<" ", "P", "V", "T", ".">>,
     <<" ", "P", "V", "T">>,
     <<" ", "P", "A", "S", "S", " ", "V", "E", "H", " ", "L", "T", "D">>,
     <<" ", "(", "I", "N", "D", "I", "A", ")">>,
     <<" ", "(", "I", ")", " ", "L", "T", "D">>,
     <<" ", "S", "E", "R", "V", "I", "C", "E", "S">>,
     <<" ", "S", "E", "R", " ", "(", "I", ")", " ", "L", "T", "D">> >>

EndsWith(s, suffix) ==
  Len(s) >= Len(suffix) /\ SubSeq(s, Len(s) - Len(suffix) + 1, Len(s)) = suffix

\* The loop over suffixes_to_remove: each suffix is tried once, in order.
RECURSIVE RemoveSuffixes(_, _)
RemoveSuffixes(name_clean, suffixes) ==
  IF suffixes = <<>> THEN name_clean
  ELSE RemoveSuffixes(
         IF EndsWith(name_clean, Head(suffixes))
         THEN Strip(SubSeq(name_clean, 1, Len(name_clean) - Len(Head(suffixes))))
         ELSE name_clean,
         Tail(suffixes))

\* The ticker of the first of the table rows `hits`, or Nothing (None).
FirstHit(ticker_table, hits) ==
  IF hits = {} THEN Nothing
  ELSE Some(ticker_table[CHOOSE i \in hits : \A j \in hits : i <= j].ticker)

\* Some(ticker) or Nothing (None).
get_ticker_from_name(stock_name) ==
  IF ~Truthy(stock_name) THEN Nothing
  ELSE
    LET name_clean == RemoveSuffixes(Strip(Upper(stock_name.s)), suffixes_to_remove)
        direct == {i \in 1..Len(STOCK_NAME_TO_TICKER) :
                     STOCK_NAME_TO_TICKER[i].key = name_clean}
        partial == {i \in 1..Len(STOCK_NAME_TO_TICKER) :
                      \/ Contains(name_clean, STOCK_NAME_TO_TICKER[i].key)
                      \/ Contains(STOCK_NAME_TO_TICKER[i].key, name_clean)}
    IN IF direct # {} THEN FirstHit(STOCK_NAME_TO_TICKER, direct)
       ELSE FirstHit(STOCK_NAME_TO_TICKER, partial)

get_ticker_from_isin(isin) ==
  IF ~Truthy(isin) THEN Nothing
  ELSE FirstHit(ISIN_TO_TICKER,
                {i \in 1..Len(ISIN_TO_TICKER) :
                   ISIN_TO_TICKER[i].key = Strip(Upper(isin.s))})

\* What a call does: it returns a value or raises.
Returned(value) == [raised |-> FALSE, value |-> value]
Raises == [raised |-> TRUE]

DotNS == <<".", "N", "S">>
DotBO == <<".", "B", "O">>

\* stock_name.split(): the words between the blanks.
RECURSIVE Split(_)
Split(s) ==
  LET t == Strip(s)
      blanks == {i \in 1..Len(t) : t[i] = " "}
      first == IF blanks = {} THEN Len(t) + 1
               ELSE CHOOSE i \in blanks : \A j \in blanks : i <= j
  IN IF t = <<>> THEN <<>>
     ELSE <<SubSeq(t, 1, first - 1)>> \o Split(SubSeq(t, first, Len(t)))

\* get_ticker with the name table consulted before the ISIN table.
get_ticker_NameFirst(stock_name, isin, symbol) ==
  IF Truthy(symbol) /\ (Contains(symbol.s, DotNS) \/ Contains(symbol.s, DotBO))
  THEN Returned(symbol.s)
  ELSE IF get_ticker_from_name(stock_name).some
  THEN Returned(get_ticker_from_name(stock_name).result)
  ELSE IF get_ticker_from_isin(isin).some
  THEN Returned(get_ticker_from_isin(isin).result)
  ELSE IF Truthy(symbol) THEN Returned(Upper(symbol.s) \o DotNS)
  ELSE IF Truthy(stock_name)
  THEN (IF Split(stock_name.s) = <<>> THEN Raises
        ELSE Returned(Upper(Split(stock_name.s)[1]) \o DotNS))
  ELSE Returned(<<"U", "N", "K", "N", "O", "W", "N", ".", "N", "S">>)

get_ticker(stock_name, isin, symbol) ==
  IF Truthy(symbol) /\ (Contains(symbol.s, DotNS) \/ Contains(symbol.s, DotBO))
  THEN Returned(symbol.s)
  ELSE IF get_ticker_from_isin(isin).some
  THEN Returned(get_ticker_from_isin(isin).result)
  ELSE IF get_ticker_from_name(stock_name).some
  THEN Returned(get_ticker_from_name(stock_name).result)
  ELSE IF Truthy(symbol) THEN Returned(Upper(symbol.s) \o DotNS)
  ELSE IF Truthy(stock_name)
  THEN (IF Split(stock_name.s) = <<>> THEN Raises
        ELSE Returned(Upper(Split(stock_name.s)[1]) \o DotNS))
  ELSE Returned(<<"U", "N", "K", "N", "O", "W", "N", ".", "N", "S">>)

exact_company_mapping ==
  <<
     [company_key |-> <<"T", "A", "T", "A", " ", "M", "O", "T", "O", "R", "S">>, sector |-> "Automobiles"],
     [company_key |-> <<"T", "A", "T", "A", "M", "O", "T", "O", "R", "S">>, sector |-> "Automobiles"],
     [company_key |-> <<"T", "A", "T", "A", " ", "M", "O", "T", "O", "R">>, sector |-> "Automobiles"],
     [company_key |-> <<"T", "A", "T", "A", " ", "M", "O", "T", "O", "R", "S", " ", "P", "A", "S", "S", " ", "V", "E", "H">>, sector |-> "Automobiles"],
     [company_key |-> <<"T", "A", "T", "A", " ", "M", "O", "T", "O", "R", "S", " ", "L", "T", "D">>, sector |-> "Automobiles"],
     [company_key |-> <<"T", "A", "T", "A", " ", "C", "A", "P", "I", "T", "A", "L">>, sector |-> "Financial Services"],
     [company_key |-> <<"T", "A", "T", "A", " ", "C", "A", "P", "I", "T", "A", "L", " ", "L", "I", "M", "I", "T", "E", "D">>, sector |-> "Financial Services"],
     [company_key |-> <<"T", "A", "T", "A", "A", "M", "L", "-", "T", "A", "T", "S", "I", "L", "V">>, sector |-> "Financial Services"],
     [company_key |-> <<"T", "A", "T", "A", " ", "A", "M", "L">>, sector |-> "Financial Services"],
     [company_key |-> <<"T", "A", "T", "A", " ", "A", "S", "S", "E", "T">>, sector |-> "Financial Services"],
     [company_key |-> <<"R", "E", "C", " ", "L", "I", "M", "I", "T", "E", "D">>, sector |-> "Power"],
     [company_key |-> <<"R", "E", "C", " ", "L", "T", "D">>, sector |-> "Power"],
     [company_key |-> <<"P", "O", "W", "E", "R", " ", "F", "I", "N", " ", "C", "O", "R", "P">>, sector |-> "Power"],
     [company_key |-> <<"P", "F", "C">>, sector |-> "Power"],
     [company_key |-> <<"S", "U", "Z", "L", "O", "N", " ", "E", "N", "E", "R", "G", "Y">>, sector |-> "Power"],
     [company_key |-> <<"S", "U", "Z", "L", "O", "N">>, sector |-> "Power"],
     [company_key |-> <<"G", "R", "A", "P", "H", "I", "T", "E", " ", "I", "N", "D", "I", "A">>, sector |-> "Metals & Mining"],
     [company_key |-> <<"G", "R", "A", "P", "H", "I", "T", "E">>, sector |-> "Metals & Mining"],
     [company_key |-> <<"R", "I", "T", "E", "S", " ", "L", "I", "M", "I", "T", "E", "D">>, sector |-> "Infrastructure"],
     [company_key |-> <<"R", "I", "T", "E", "S", " ", "L", "T", "D">>, sector |-> "Infrastructure"],
     [company_key |-> <<"G", "A", "I", "L">>, sector |-> "Oil & Gas"],
     [company_key |-> <<"G", "A", "I", "L", " ", "I", "N", "D", "I", "A">>, sector |-> "Oil & Gas"],
     [company_key |-> <<"C", "O", "A", "L", " ", "I", "N", "D", "I", "A">>, sector |-> "Power"],
     [company_key |-> <<"C", "O", "A", "L", " ", "I", "N", "D", "I", "A", " ", "L", "T", "D">>, sector |-> "Power"],
     [company_key |-> <<"V", "E", "D", "A", "N", "T", "A">>, sector |-> "Metals & Mining"],
     [company_key |-> <<"V", "E", "D", "A", "N", "T", "A", " ", "L", "I", "M", "I", "T", "E", "D">>, sector |-> "Metals & Mining"],
     [company_key |-> <<"N", "M", "D", "C">>, sector |-> "Metals & Mining"] >>

sector_patterns ==
  <<
     [ sector |-> "Banking",
       high |-> << <<"B", "A", "N", "K", " ", "O", "F">>,
                  <<"S", "T", "A", "T", "E", " ", "B", "A", "N", "K">>,
                  <<"S", "B", "I", " ">>,
                  <<"H", "D", "F", "C", " ", "B", "A", "N", "K">>,
                  <<"I", "C", "I", "C", "I", " ", "B", "A", "N", "K">>,
                  <<"A", "X", "I", "S", " ", "B", "A", "N", "K">>,
                  <<"K", "O", "T", "A", "K", " ", "B", "A", "N", "K">> >>,
       medium |-> << <<"B", "A", "N", "K">>,
                    <<"B", "A", "N", "K", "S">>,
                    <<"B", "A", "N", "K", "I", "N", "G">> >>,
       low |-> <<>> ],
     [ sector |-> "Financial Services",
       high |-> << <<"B", "A", "J", "A", "J", " ", "F", "I", "N">>,
                  <<"H", "O", "U", "S", "I", "N", "G", " ", "F", "I", "N", "A", "N", "C", "E">>,
                  <<"B", "A", "J", "A", "J", " ", "H", "O", "U", "S", "I", "N", "G">>,
                  <<"D", "E", "P", "O", "S", "I", "T", "O", "R", "Y">>,
                  <<"C", "D", "S", "L">>,
                  <<"N", "S", "D", "L">>,
                  <<"M", "U", "T", "U", "A", "L", " ", "F", "U", "N", "D">>,
                  <<"A", "S", "S", "E", "T", " ", "M", "A", "N", "A", "G", "E", "M", "E", "N", "T">> >>,
       medium |-> << <<"F", "I", "N", "A", "N", "C", "I", "A", "L">>,
                    <<"F", "I", "N", "A", "N", "C", "E">>,
                    <<"C", "R", "E", "D", "I", "T">>,
                    <<"I", "N", "S", "U", "R", "A", "N", "C", "E">>,
                    <<"S", "E", "C", "U", "R", "I", "T", "I", "E", "S">>,
                    <<"I", "N", "V", "E", "S", "T", "M", "E", "N", "T">> >>,
       low |-> << <<"C", "A", "P", "I", "T", "A", "L">>,
                 <<"F", "U", "N", "D">> >> ],
     [ sector |-> "IT Services",
       high |-> << <<"T", "C", "S">>,
                  <<"T", "A", "T", "A", " ", "C", "O", "N", "S", "U", "L", "T", "A", "N", "C", "Y">>,
                  <<"I", "N", "F", "O", "S", "Y", "S">>,
                  <<"I", "N", "F", "Y">>,
                  <<"W", "I", "P", "R", "O">>,
                  <<"T", "E", "C", "H", " ", "M", "A", "H", "I", "N", "D", "R", "A">>,
                  <<"H", "C", "L", " ", "T", "E", "C", "H">> >>,
       medium |-> << <<"S", "O", "F", "T", "W", "A", "R", "E">>,
                    <<"I", "N", "F", "O", "T", "E", "C", "H">>,
                    <<"T", "E", "C", "H", "N", "O", "L", "O", "G", "Y">>,
                    <<"I", "T", " ", "S", "E", "R", "V", "I", "C", "E", "S">>,
                    <<"D", "I", "G", "I", "T", "A", "L">>,
                    <<"C", "Y", "B", "E", "R">> >>,
       low |-> << <<"T", "E", "C", "H">>,
                 <<"D", "A", "T", "A">>,
                 <<"S", "Y", "S", "T", "E", "M">> >> ],
     [ sector |-> "Pharmaceuticals",
       high |-> << <<"C", "I", "P", "L", "A">>,
                  <<"L", "U", "P", "I", "N">>,
                  <<"D", "R", " ", "R", "E", "D", "D", "Y">>,
                  <<"S", "U", "N", " ", "P", "H", "A", "R", "M", "A">>,
                  <<"B", "I", "O", "C", "O", "N">>,
                  <<"P", "H", "A", "R", "M", "A", "C", "E", "U", "T", "I", "C", "A", "L">> >>,
       medium |-> << <<"P", "H", "A", "R", "M", "A">>,
                    <<"H", "E", "A", "L", "T", "H", "C", "A", "R", "E">>,
                    <<"M", "E", "D", "I", "C", "A", "L">>,
                    <<"M", "E", "D", "I", "C", "I", "N", "E">>,
                    <<"D", "R", "U", "G">> >>,
       low |-> << <<"H", "E", "A", "L", "T", "H">>,
                 <<"B", "I", "O">>,
                 <<"L", "I", "F", "E">> >> ],
     [ sector |-> "Oil & Gas",
       high |-> << <<"I", "N", "D", "I", "A", "N", " ", "O", "I", "L">>,
                  <<"B", "P", "C", "L">>,
                  <<"H", "P", "C", "L">>,
                  <<"H", "I", "N", "D", "U", "S", "T", "A", "N", " ", "P", "E", "T", "R", "O", "L", "E", "U", "M">>,
                  <<"B", "H", "A", "R", "A", "T", " ", "P", "E", "T", "R", "O", "L", "E", "U", "M">>,
                  <<"O", "N", "G", "C">>,
                  <<"O", "I", "L", " ", "A", "N", "D", " ", "N", "A", "T", "U", "R", "A", "L", " ", "G", "A", "S">> >>,
       medium |-> << <<"P", "E", "T", "R", "O", "L", "E", "U", "M">>,
                    <<"R", "E", "F", "I", "N", "E", "R", "Y">>,
                    <<"O", "I", "L", " ", "C", "O", "R", "P">> >>,
       low |-> << <<"O", "I", "L">>,
                 <<"G", "A", "S">> >> ],
     [ sector |-> "Power",
       high |-> << <<"N", "T", "P", "C">>,
                  <<"P", "O", "W", "E", "R", "G", "R", "I", "D">>,
                  <<"T", "A", "T", "A", " ", "P", "O", "W", "E", "R">>,
                  <<"A", "D", "A", "N", "I", " ", "P", "O", "W", "E", "R">>,
                  <<"J", "S", "W", " ", "E", "N", "E", "R", "G", "Y">>,
                  <<"T", "O", "R", "R", "E", "N", "T", " ", "P", "O", "W", "E", "R">>,
                  <<"N", "L", "C", " ", "I", "N", "D", "I", "A">>,
                  <<"N", "H", "P", "C">>,
                  <<"R", "E", "C", " ", "L", "I", "M", "I", "T", "E", "D">>,
                  <<"P", "O", "W", "E", "R", " ", "F", "I", "N">>,
                  <<"S", "U", "Z", "L", "O", "N">> >>,
       medium |-> << <<"P", "O", "W", "E", "R", " ", "C", "O", "R", "P">>,
                    <<"E", "L", "E", "C", "T", "R", "I", "C", "I", "T", "Y">>,
                    <<"E", "L", "E", "C", "T", "R", "I", "C", " ", "U", "T", "I", "L", "I", "T", "I", "E", "S">>,
                    <<"R", "E", "N", "E", "W", "A", "B", "L", "E", " ", "E", "N", "E", "R", "G", "Y">>,
                    <<"S", "O", "L", "A", "R", " ", "E", "N", "E", "R", "G", "Y">>,
                    <<"W", "I", "N", "D", " ", "E", "N", "E", "R", "G", "Y">> >>,
       low |-> << <<"P", "O", "W", "E", "R">>,
                 <<"E", "L", "E", "C", "T", "R", "I", "C">>,
                 <<"E", "N", "E", "R", "G", "Y">>,
                 <<"R", "E", "N", "E", "W", "A", "B", "L", "E">> >> ],
     [ sector |-> "Automobiles",
       high |-> << <<"T", "A", "T", "A", " ", "M", "O", "T", "O", "R", "S">>,
                  <<"M", "A", "R", "U", "T", "I">>,
                  <<"M", "A", "H", "I", "N", "D", "R", "A">>,
                  <<"B", "A", "J", "A", "J", " ", "A", "U", "T", "O">>,
                  <<"H", "E", "R", "O", " ", "M", "O", "T", "O">>,
                  <<"T", "V", "S", " ", "M", "O", "T", "O", "R">>,
                  <<"E", "I", "C", "H", "E", "R", " ", "M", "O", "T", "O", "R", "S">>,
                  <<"A", "S", "H", "O", "K", " ", "L", "E", "Y", "L", "A", "N", "D">> >>,
       medium |-> << <<"A", "U", "T", "O", "M", "O", "B", "I", "L", "E">>,
                    <<"A", "U", "T", "O", "M", "O", "T", "I", "V", "E">>,
                    <<"V", "E", "H", "I", "C", "L", "E", "S">> >>,
       low |-> << <<"A", "U", "T", "O">>,
                 <<"M", "O", "T", "O", "R">>,
                 <<"C", "A", "R">> >> ],
     [ sector |-> "FMCG",
       high |-> << <<"I", "T", "C", " ", "L", "T", "D">>,
                  <<"H", "U", "L">>,
                  <<"H", "I", "N", "D", "U", "S", "T", "A", "N", " ", "U", "N", "I", "L", "E", "V", "E", "R">>,
                  <<"B", "R", "I", "T", "A", "N", "N", "I", "A">>,
                  <<"N", "E", "S", "T", "L", "E">>,
                  <<"D", "A", "B", "U", "R">>,
                  <<"M", "A", "R", "I", "C", "O">>,
                  <<"G", "O", "D", "R", "E", "J", " ", "C", "O", "N", "S", "U", "M", "E", "R">> >>,
       medium |-> << <<"C", "O", "N", "S", "U", "M", "E", "R", " ", "G", "O", "O", "D", "S">>,
                    <<"C", "O", "N", "S", "U", "M", "E", "R", " ", "P", "R", "O", "D", "U", "C", "T", "S">>,
                    <<"F", "O", "O", "D", "S">>,
                    <<"B", "E", "V", "E", "R", "A", "G", "E">> >>,
       low |-> << <<"C", "O", "N", "S", "U", "M", "E", "R">>,
                 <<"F", "O", "O", "D">>,
                 <<"P", "R", "O", "D", "U", "C", "T", "S">> >> ],
     [ sector |-> "Telecom",
       high |-> << <<"B", "H", "A", "R", "T", "I", " ", "A", "I", "R", "T", "E", "L">>,
                  <<"V", "O", "D", "A", "F", "O", "N", "E">>,
                  <<"I", "D", "E", "A">>,
                  <<"J", "I", "O">>,
                  <<"R", "E", "L", "I", "A", "N", "C", "E", " ", "J", "I", "O">> >>,
       medium |-> << <<"T", "E", "L", "E", "C", "O", "M">>,
                    <<"T", "E", "L", "E", "C", "O", "M", "M", "U", "N", "I", "C", "A", "T", "I", "O", "N">>,
                    <<"C", "O", "M", "M", "U", "N", "I", "C", "A", "T", "I", "O", "N", " ", "S", "E", "R", "V", "I", "C", "E", "S">> >>,
       low |-> << <<"M", "O", "B", "I", "L", "E">>,
                 <<"N", "E", "T", "W", "O", "R", "K">> >> ],
     [ sector |-> "Metals & Mining",
       high |-> << <<"T", "A", "T", "A", " ", "S", "T", "E", "E", "L">>,
                  <<"J", "S", "W", " ", "S", "T", "E", "E", "L">>,
                  <<"H", "I", "N", "D", "A", "L", "C", "O">>,
                  <<"V", "E", "D", "A", "N", "T", "A">>,
                  <<"N", "A", "L", "C", "O">>,
                  <<"N", "M", "D", "C">>,
                  <<"S", "A", "I", "L">>,
                  <<"J", "I", "N", "D", "A", "L", " ", "S", "T", "E", "E", "L">>,
                  <<"G", "R", "A", "P", "H", "I", "T", "E", " ", "I", "N", "D", "I", "A">> >>,
       medium |-> << <<"S", "T", "E", "E", "L", " ", "C", "O", "R", "P">>,
                    <<"A", "L", "U", "M", "I", "N", "I", "U", "M">>,
                    <<"A", "L", "U", "M", "I", "N", "U", "M">>,
                    <<"M", "I", "N", "I", "N", "G", " ", "C", "O", "R", "P">> >>,
       low |-> << <<"S", "T", "E", "E", "L">>,
                 <<"M", "E", "T", "A", "L">>,
                 <<"M", "I", "N", "I", "N", "G">>,
                 <<"C", "O", "P", "P", "E", "R">>,
                 <<"Z", "I", "N", "C">> >> ],
     [ sector |-> "Infrastructure",
       high |-> << <<"L", "&", "T">>,
                  <<"L", "A", "R", "S", "E", "N", " ", "T", "O", "U", "B", "R", "O">>,
                  <<"L", "A", "R", "S", "E", "N", " ", "&", " ", "T", "O", "U", "B", "R", "O">>,
                  <<"G", "M", "R", " ", "I", "N", "F", "R", "A">>,
                  <<"G", "V", "K">>,
                  <<"I", "R", "B", " ", "I", "N", "F", "R", "A">>,
                  <<"N", "C", "C", " ", "L", "T", "D">>,
                  <<"H", "C", "C">>,
                  <<"R", "I", "T", "E", "S">> >>,
       medium |-> << <<"I", "N", "F", "R", "A", "S", "T", "R", "U", "C", "T", "U", "R", "E">>,
                    <<"C", "O", "N", "S", "T", "R", "U", "C", "T", "I", "O", "N">>,
                    <<"E", "N", "G", "I", "N", "E", "E", "R", "I", "N", "G", " ", "S", "E", "R", "V", "I", "C", "E", "S">>,
                    <<"P", "R", "O", "J", "E", "C", "T", "S", " ", "L", "T", "D">> >>,
       low |-> << <<"I", "N", "F", "R", "A">>,
                 <<"E", "N", "G", "I", "N", "E", "E", "R", "I", "N", "G">>,
                 <<"B", "U", "I", "L", "D", "E", "R", "S">>,
                 <<"D", "E", "V", "E", "L", "O", "P", "E", "R", "S">> >> ],
     [ sector |-> "Cement",
       high |-> << <<"U", "L", "T", "R", "A", "T", "E", "C", "H">>,
                  <<"A", "C", "C", " ", "L", "T", "D">>,
                  <<"A", "M", "B", "U", "J", "A">>,
                  <<"S", "H", "R", "E", "E", " ", "C", "E", "M", "E", "N", "T">>,
                  <<"R", "A", "M", "C", "O", " ", "C", "E", "M", "E", "N", "T">>,
                  <<"D", "A", "L", "M", "I", "A", " ", "C", "E", "M", "E", "N", "T">> >>,
       medium |-> << <<"C", "E", "M", "E", "N", "T", " ", "C", "O", "R", "P">>,
                    <<"C", "E", "M", "E", "N", "T", " ", "L", "T", "D">> >>,
       low |-> << <<"C", "E", "M", "E", "N", "T">> >> ],
     [ sector |-> "Real Estate",
       high |-> << <<"D", "L", "F">>,
                  <<"O", "B", "E", "R", "O", "I", " ", "R", "E", "A", "L", "T", "Y">>,
                  <<"G", "O", "D", "R", "E", "J", " ", "P", "R", "O", "P", "E", "R", "T", "I", "E", "S">>,
                  <<"P", "R", "E", "S", "T", "I", "G", "E", " ", "E", "S", "T", "A", "T", "E", "S">>,
                  <<"B", "R", "I", "G", "A", "D", "E">>,
                  <<"S", "O", "B", "H", "A">> >>,
       medium |-> << <<"R", "E", "A", "L", " ", "E", "S", "T", "A", "T", "E">>,
                    <<"P", "R", "O", "P", "E", "R", "T", "I", "E", "S">>,
                    <<"R", "E", "A", "L", "T", "Y">>,
                    <<"H", "O", "U", "S", "I", "N", "G", " ", "D", "E", "V", "E", "L", "O", "P", "M", "E", "N", "T">> >>,
       low |-> << <<"P", "R", "O", "P", "E", "R", "T", "Y">>,
                 <<"H", "O", "U", "S", "I", "N", "G">> >> ],
     [ sector |-> "Media & Entertainment",
       high |-> << <<"Z", "E", "E", " ", "E", "N", "T", "E", "R", "T", "A", "I", "N", "M", "E", "N", "T">>,
                  <<"S", "U", "N", " ", "T", "V">>,
                  <<"T", "V", "1", "8">>,
                  <<"N", "E", "T", "W", "O", "R", "K", "1", "8">>,
                  <<"P", "V", "R">>,
                  <<"I", "N", "O", "X">> >>,
       medium |-> << <<"M", "E", "D", "I", "A">>,
                    <<"E", "N", "T", "E", "R", "T", "A", "I", "N", "M", "E", "N", "T">>,
                    <<"B", "R", "O", "A", "D", "C", "A", "S", "T", "I", "N", "G">> >>,
       low |-> << <<"F", "I", "L", "M">>,
                 <<"C", "I", "N", "E", "M", "A">> >> ] >>

\* The keywords of one priority list that the name contains.
Matches(name_upper, keywords) ==
  Cardinality({i \in 1..Len(keywords) : Contains(name_upper, keywords[i])})

\* high = 10, medium = 3, low = 1
Score(name_upper, priority_keywords) ==
  10 * Matches(name_upper, priority_keywords.high)
    + 3 * Matches(name_upper, priority_keywords.medium)
    + Matches(name_upper, priority_keywords.low)

\* The last sector with the highest score taken instead of the first.
BestSector_LastWins(name_upper) ==
  LET scored == {i \in 1..Len(sector_patterns) : Score(name_upper, sector_patterns[i]) > 0}
      best == CHOOSE i \in scored :
                \A j \in scored :
                  \/ Score(name_upper, sector_patterns[j]) < Score(name_upper, sector_patterns[i])
                  \/ (Score(name_upper, sector_patterns[j]) = Score(name_upper, sector_patterns[i])
                      /\ i >= j)
  IN IF scored = {} THEN "Other" ELSE sector_patterns[best].sector

\* max(sector_scores.items(), key=...): the first sector with the highest
\* score, or 'Other' when no sector scores.
BestSector(name_upper) ==
  LET scored == {i \in 1..Len(sector_patterns) : Score(name_upper, sector_patterns[i]) > 0}
      best == CHOOSE i \in scored :
                \A j \in scored :
                  \/ Score(name_upper, sector_patterns[j]) < Score(name_upper, sector_patterns[i])
                  \/ (Score(name_upper, sector_patterns[j]) = Score(name_upper, sector_patterns[i])
                      /\ i <= j)
  IN IF scored = {} THEN "Other" ELSE sector_patterns[best].sector

\* infer_sector_from_name without its table of exact company names.
infer_sector_from_name_ScoresOnly(security_name) ==
  IF security_name.kind # "str" THEN Raised
  ELSE BestSector(Upper(security_name.s))

\* The sector, or Raised: None has no upper().
infer_sector_from_name(security_name) ==
  IF security_name.kind # "str" THEN Raised
  ELSE
    LET name_upper == Upper(security_name.s)
        exact == {i \in 1..Len(exact_company_mapping) :
                    Contains(name_upper, exact_company_mapping[i].company_key)}
    IN IF exact # {}
       THEN exact_company_mapping[CHOOSE i \in exact : \A j \in exact : i <= j].sector
       ELSE BestSector(name_upper)

\* The sampled holdings: a name, an ISIN and a symbol, each a string or None.
LookupIsins ==
  { PyNone,
    StrCell(<<"I", "N", "E", "0", "0", "2", "A", "0", "1", "0", "1", "8">>),
    StrCell(<<" ", "i", "n", "e", "0", "0", "9", "a", "0", "1", "0", "2", "1", " ">>),
    StrCell(<<"X", "X">>),
    StrCell(<<>>) }

LookupSymbols ==
  { PyNone,
    StrCell(<<"X", "Y", "Z">>),
    StrCell(<<"T", "C", "S", ".", "N", "S">>),
    StrCell(<<"X", ".", "B", "O">>),
    StrCell(<<"t", "c", "s", ".", "n", "s">>),
    StrCell(<<" ">>),
    StrCell(<<>>) }

Holdings == [stock_name : LookupNames, isin : LookupIsins, symbol : LookupSymbols]

\* The lookups, tabulated once for the sampled holdings and names.
ticker_of == [holding \in Holdings |->
                get_ticker(holding.stock_name, holding.isin, holding.symbol)]

sector_of == [security_name \in LookupNames |-> infer_sector_from_name(security_name)]

\* sector_mapping.get(sector, sector): Yahoo Finance's sector names with
\* the catalog's names for them, any other name kept.
sector_mapping(sector) ==
  CASE sector = "Financial Services" -> "Financial Services"
    [] sector = "Banks" -> "Banking"
    [] sector = "Technology" -> "IT Services"
    [] sector = "Communication Services" -> "Telecom"
    [] sector = "Energy" -> "Oil & Gas"
    [] sector = "Basic Materials" -> "Metals & Mining"
    [] sector = "Utilities" -> "Power"
    [] sector = "Industrials" -> "Infrastructure"
    [] sector = "Consumer Cyclical" -> "FMCG"
    [] sector = "Consumer Defensive" -> "FMCG"
    [] sector = "Healthcare" -> "Pharmaceuticals"
    [] sector = "Real Estate" -> "Real Estate"
    [] OTHER -> sector

\* What the Yahoo Finance lookup can answer: an exception (no yfinance, no
\* network), an empty info, or an info with a sector and an industry, each
\* possibly missing ("" and <<>>).
YahooResponses ==
  { [raises |-> TRUE, empty |-> FALSE, sector |-> "", industry |-> <<>>],
    [raises |-> FALSE, empty |-> TRUE, sector |-> "", industry |-> <<>>],
    [raises |-> FALSE, empty |-> FALSE, sector |-> "Technology", industry |-> <<"A", "u", "t", "o", " ", "P", "a", "r", "t", "s">>],
    [raises |-> FALSE, empty |-> FALSE, sector |-> "Conglomerates", industry |-> <<>>],
    [raises |-> FALSE, empty |-> FALSE, sector |-> "", industry |-> <<"A", "u", "t", "o", " ", "P", "a", "r", "t", "s">>],
    [raises |-> FALSE, empty |-> FALSE, sector |-> "", industry |-> <<"S", "o", "f", "t", "w", "a", "r", "e", " ", "-", " ", "B", "a", "n", "k", "i", "n", "g">>],
    [raises |-> FALSE, empty |-> FALSE, sector |-> "", industry |-> <<"F", "a", "r", "m", " ", "P", "r", "o", "d", "u", "c", "t", "s">>] }

\* The sector Yahoo Finance answers for the ticker, or Nothing (None).
fetch_sector_from_api(ticker, response) ==
  IF response.raises \/ response.empty THEN Nothing
  ELSE IF response.sector # "" THEN Some(sector_mapping(response.sector))
  ELSE IF response.industry = <<>> THEN Nothing
  ELSE
    LET industry_lower == Lower(response.industry)
        Has(word) == Contains(industry_lower, word)
    IN IF Has(<<"b", "a", "n", "k">>) THEN Some("Banking")
       ELSE IF Has(<<"s", "o", "f", "t", "w", "a", "r", "e">>) \/ Has(<<"t", "e", "c", "h", "n", "o", "l", "o", "g", "y">>) THEN Some("IT Services")
       ELSE IF Has(<<"o", "i", "l">>) \/ Has(<<"g", "a", "s">>) THEN Some("Oil & Gas")
       ELSE IF Has(<<"p", "h", "a", "r", "m", "a">>) \/ Has(<<"d", "r", "u", "g">>) THEN Some("Pharmaceuticals")
       ELSE IF Has(<<"a", "u", "t", "o">>) THEN Some("Automobiles")
       ELSE IF Has(<<"t", "e", "l", "e", "c", "o", "m">>) THEN Some("Telecom")
       ELSE IF Has(<<"p", "o", "w", "e", "r">>) \/ Has(<<"e", "l", "e", "c", "t", "r", "i", "c">>) THEN Some("Power")
       ELSE IF Has(<<"s", "t", "e", "e", "l">>) \/ Has(<<"m", "e", "t", "a", "l">>) THEN Some("Metals & Mining")
       ELSE Nothing

\* get_sector that asks the API whenever there is a ticker.
get_sector_ApiAlways(security_name, ticker, prefer_api, response) ==
  LET api_called == Truthy(ticker)
      api_sector == IF api_called THEN fetch_sector_from_api(ticker, response) ELSE Nothing
  IN [ api_called |-> api_called,
       api_sector |-> api_sector,
       result |-> IF api_sector.some THEN api_sector.result ELSE sector_of[security_name] ]

\* The sector, with whether the API was asked and what it answered.
get_sector(security_name, ticker, prefer_api, response) ==
  LET api_called == prefer_api /\ Truthy(ticker)
      api_sector == IF api_called THEN fetch_sector_from_api(ticker, response) ELSE Nothing
  IN [ api_called |-> api_called,
       api_sector |-> api_sector,
       result |-> IF api_sector.some THEN api_sector.result ELSE sector_of[security_name] ]

\* The fourth specification: a caller holding the identity of one holding
\* looks up its ticker, its sector and its asset category.
InitLookup ==
  /\ portfolio_data \in Holdings
  /\ scenarios = ScenarioCatalog
  /\ model = "None"
  /\ call = NoCall

GetTickerFromName ==
  /\ call' = [op |-> "get_ticker_from_name",
              result |-> get_ticker_from_name(portfolio_data.stock_name)]
  /\ UNCHANGED <<portfolio_data, scenarios, model>>

GetTickerFromIsin ==
  /\ call' = [op |-> "get_ticker_from_isin",
              result |-> get_ticker_from_isin(portfolio_data.isin)]
  /\ UNCHANGED <<portfolio_data, scenarios, model>>

GetTicker ==
  /\ call' = [op |-> "get_ticker", result |-> ticker_of[portfolio_data]]
  /\ UNCHANGED <<portfolio_data, scenarios, model>>

InferSectorFromName ==
  /\ call' = [op |-> "infer_sector_from_name",
              result |-> sector_of[portfolio_data.stock_name]]
  /\ UNCHANGED <<portfolio_data, scenarios, model>>

CategorizeAsset ==
  /\ call' = [op |-> "categorize_asset",
              result |-> category_of[portfolio_data.stock_name]]
  /\ UNCHANGED <<portfolio_data, scenarios, model>>

GetSector ==
  \E prefer_api \in BOOLEAN, response \in YahooResponses :
    LET answer == get_sector(portfolio_data.stock_name, portfolio_data.symbol,
                             prefer_api, response)
    IN /\ call' = [op |-> "get_sector",
                   prefer_api |-> prefer_api,
                   api_called |-> answer.api_called,
                   api_sector |-> answer.api_sector,
                   result |-> answer.result]
       /\ UNCHANGED <<portfolio_data, scenarios, model>>

NextLookup ==
  \/ GetSector
  \/ GetTickerFromName
  \/ GetTickerFromIsin
  \/ GetTicker
  \/ InferSectorFromName
  \/ CategorizeAsset

SpecLookup == InitLookup /\ [][NextLookup]_vars

-----------------------------------------------------------------------------
(* Claims C15-C18, checked under SpecLookup.                               *)

IsTickerCall == call.op = "get_ticker"

\* The steps of get_ticker that can succeed before the defaults.
SuffixedSymbol ==
  /\ Truthy(portfolio_data.symbol)
  /\ Contains(portfolio_data.symbol.s, DotNS) \/ Contains(portfolio_data.symbol.s, DotBO)

IsinHit == get_ticker_from_isin(portfolio_data.isin)

NameHit == get_ticker_from_name(portfolio_data.stock_name)

Occurrences(hay, needle) ==
  Cardinality({i \in 1..(Len(hay) - Len(needle) + 1) :
                 SubSeq(hay, i, i + Len(needle) - 1) = needle})

\* C16 (as claimed): for every name, ISIN and symbol, each a string or absent,
\* get_ticker returns without raising a non-empty ticker that ends with an
\* exchange suffix, '.NS' or '.BO', and carries a suffix exactly once.
C16_TickerWellFormed ==
  IsTickerCall =>
    /\ ~call.result.raised
    /\ call.result.value # <<>>
    /\ EndsWith(call.result.value, DotNS) \/ EndsWith(call.result.value, DotBO)
    /\ Occurrences(call.result.value, DotNS) + Occurrences(call.result.value, DotBO) = 1

\* C17: infer_sector_from_name returns the sector of an override key whenever
\* the upper-cased name contains one, whatever the keywords score ('Tata
\* Capital Limited' is 'Financial Services', 'Tata Motors Ltd' is
\* 'Automobiles'), and the best-scoring sector only when it contains none.
C17_OverrideFirst ==
  (call.op = "infer_sector_from_name" /\ portfolio_data.stock_name.kind = "str") =>
    LET name_upper == Upper(portfolio_data.stock_name.s)
        contained == {i \in 1..Len(exact_company_mapping) :
                        Contains(name_upper, exact_company_mapping[i].company_key)}
    IN /\ contained # {} =>
            call.result \in {exact_company_mapping[i].sector : i \in contained}
       /\ contained = {} => call.result = BestSector(name_upper)
       /\ portfolio_data.stock_name.s = <<"T", "a", "t", "a", " ", "C", "a", "p", "i", "t", "a", "l", " ", "L", "i", "m", "i", "t", "e", "d">> => call.result = "Financial Services"
       /\ portfolio_data.stock_name.s = <<"T", "a", "t", "a", " ", "M", "o", "t", "o", "r", "s", " ", "L", "t", "d">> => call.result = "Automobiles"

\* 'Coal India Ltd' scores for no sector, and its override makes it 'Power'.
C17_Witness ==
  /\ call.op = "infer_sector_from_name"
  /\ portfolio_data.stock_name = StrCell(<<"C", "o", "a", "l", " ", "I", "n", "d", "i", "a", " ", "L", "t", "d">>)
  /\ BestSector(Upper(portfolio_data.stock_name.s)) = "Other"
  /\ call.result = "Power"

\* C18: for every name, absent, empty or a string, categorize_asset returns a
\* member of the category enum, decided in this order: a table key that
\* contains the cleaned name or is contained in it gives its category; else a
\* banking keyword gives large_cap_stocks; else a technology keyword gives
\* tech_stocks; else (energy keyword or none) large_cap_stocks.
C18_CategoryOrder ==
  call.op = "categorize_asset" =>
    LET stock_name == portfolio_data.stock_name
        clean_name == Upper(Strip(stock_name.s))
        matched == {i \in 1..Len(asset_category_mapping) :
                      \/ Contains(clean_name, Upper(asset_category_mapping[i].key))
                      \/ Contains(Upper(asset_category_mapping[i].key), clean_name)}
        has(words) == \E w \in words : Contains(Lower(stock_name.s), w)
    IN /\ call.result \in Categories
       /\ IF stock_name.kind = "none" \/ stock_name.s = <<>>
          THEN call.result = "large_cap_stocks"
          ELSE IF matched # {}
          THEN call.result \in {asset_category_mapping[i].category : i \in matched}
          ELSE IF has(BankWords) THEN call.result = "large_cap_stocks"
          ELSE IF has(TechWords) THEN call.result = "tech_stocks"
          ELSE call.result = "large_cap_stocks"

\* 'Fintech Credit' matches no table key and holds a banking and a technology
\* keyword: the banking keyword decides.
C18_Witness ==
  /\ call.op = "categorize_asset"
  /\ portfolio_data.stock_name = StrCell(<<"F", "i", "n", "t", "e", "c", "h", " ", "C", "r", "e", "d", "i", "t">>)
  /\ \E w \in BankWords : Contains(Lower(portfolio_data.stock_name.s), w)
  /\ \E w \in TechWords : Contains(Lower(portfolio_data.stock_name.s), w)
  /\ call.result = "large_cap_stocks"

-----------------------------------------------------------------------------
(* Claims C21 and C22, checked under SpecCsv.                              *)

\* C21: a row whose name is absent is never salvaged by its symbol or its
\* ISIN with a placeholder text ('nan', 'none', '', 'null', 'na', trimmed,
\* any case) as the holding's name.
C21_PlaceholderNeverName ==
  (IsExtractCall /\ call.result.some /\
   call.result.result.salvage_reason \in {"used_symbol", "used_isin"})
    => Lower(Strip(call.result.result.stock_name)) \notin PlaceholderNames

IsFindCall == call.op = "find_column_case_insensitive"

\* The patterns, by position, that equal some column name ignoring case.
ExactPatterns ==
  {k \in DOMAIN call.patterns :
     \E i \in DOMAIN portfolio_data.df.columns :
       Lower(portfolio_data.df.columns[i]) = Lower(call.patterns[k])}

\* Some pattern and some column are equal, or one contains the other,
\* ignoring case.
SomeMatch ==
  \E k \in DOMAIN call.patterns, i \in DOMAIN portfolio_data.df.columns :
    \/ Contains(Lower(portfolio_data.df.columns[i]), Lower(call.patterns[k]))
    \/ Contains(Lower(call.patterns[k]), Lower(portfolio_data.df.columns[i]))

\* C22: whenever some pattern equals some column name ignoring case, the
\* column returned equals the highest-priority such pattern; the result is
\* None only when nothing matches, and otherwise one of the columns.
C22_ExactBeforeSubstring ==
  IsFindCall =>
    /\ ExactPatterns # {} =>
         /\ call.result.some
         /\ Lower(call.result.result) =
              Lower(call.patterns[CHOOSE k \in ExactPatterns : \A j \in ExactPatterns : k <= j])
    /\ call.result.some <=> SomeMatch
    /\ call.result.some =>
         \E i \in DOMAIN portfolio_data.df.columns : call.result.result = portfolio_data.df.columns[i]

-----------------------------------------------------------------------------
(* Claims C23, C24 and C29, checked under SpecLookup.                      *)

IsSectorCall == call.op = "infer_sector_from_name"

\* The sector catalog.
SectorCatalog ==
  { "Banking", "Financial Services", "IT Services", "Pharmaceuticals", "Oil & Gas",
    "Power", "Automobiles", "FMCG", "Telecom", "Metals & Mining", "Infrastructure",
    "Cement", "Real Estate", "Media & Entertainment", "Other" }

\* No override key is contained in the upper-cased name.
NoOverride(security_name) ==
  \A i \in 1..Len(exact_company_mapping) :
    ~Contains(Upper(security_name.s), exact_company_mapping[i].company_key)

\* The weighted keyword score of every sector, by declaration order, for
\* the sampled string names.
scores_of ==
  [security_name \in {n \in LookupNames : n.kind = "str"} |->
     [i \in 1..Len(sector_patterns) |-> Score(Upper(security_name.s), sector_patterns[i])]]

\* C23: with no override key in the name, the sector returned is in the
\* catalog; it is 'Other' when no sector scores above zero, and otherwise
\* the sector with the highest weighted score, the first declared among
\* those that tie.
C23_HighestScoreFirstDeclared ==
  (IsSectorCall /\ portfolio_data.stock_name.kind = "str" /\ NoOverride(portfolio_data.stock_name))
    => LET scores == scores_of[portfolio_data.stock_name]
       IN /\ call.result \in SectorCatalog
          /\ (\A i \in DOMAIN scores : scores[i] = 0) => call.result = "Other"
          /\ (\E i \in DOMAIN scores : scores[i] > 0) =>
               \E i \in DOMAIN scores :
                 /\ sector_patterns[i].sector = call.result
                 /\ \A j \in DOMAIN scores : scores[j] <= scores[i]
                 /\ \A j \in DOMAIN scores : j < i => scores[j] < scores[i]

\* 'Cement Steel Works' scores 1 for Metals & Mining and 1 for Cement: the
\* sector declared first is returned.
C23_Witness ==
  /\ IsSectorCall
  /\ portfolio_data.stock_name.kind = "str"
  /\ NoOverride(portfolio_data.stock_name)
  /\ \E i, j \in DOMAIN scores_of[portfolio_data.stock_name] :
       /\ i < j
       /\ scores_of[portfolio_data.stock_name][i] = scores_of[portfolio_data.stock_name][j]
       /\ scores_of[portfolio_data.stock_name][i] > 0
       /\ call.result = sector_patterns[i].sector
  /\ call.result = "Metals & Mining"

IsGetSectorCall == call.op = "get_sector"

\* A ticker is given: a string that is not empty.
TickerGiven ==
  portfolio_data.symbol.kind = "str" /\ portfolio_data.symbol.s # <<>>

\* C24: the API is asked only when prefer_api is true and a ticker is
\* given; what it answers, if anything, is the result as it is, and in every
\* other case the result is what infer_sector_from_name gives for the name
\* (an exception for a name that is no string); a result returned is a
\* sector name, never None.
C24_ApiThenClassifier ==
  IsGetSectorCall =>
    /\ call.api_called => (call.prefer_api /\ TickerGiven)
    /\ ~call.api_called => ~call.api_sector.some
    /\ call.api_sector.some => call.result = call.api_sector.result
    /\ ~call.api_sector.some => call.result = sector_of[portfolio_data.stock_name]
    /\ call.result # ""
    /\ call.result = Raised => portfolio_data.stock_name.kind # "str"

\* The API asked for ticker 'XYZ' answers 'IT Services' and the name
\* 'Coal India Ltd', which the classifier puts in 'Power', is not looked at.
C24_Witness ==
  /\ IsGetSectorCall
  /\ call.api_called
  /\ call.api_sector = Some("IT Services")
  /\ sector_of[portfolio_data.stock_name] = "Power"
  /\ call.result = "IT Services"

\* The name is a string that is empty once upper-cased, trimmed and
\* stripped of its suffixes.
NameCleansToEmpty ==
  /\ portfolio_data.stock_name.kind = "str"
  /\ RemoveSuffixes(Strip(Upper(portfolio_data.stock_name.s)), suffixes_to_remove) = <<>>

\* C29: a name that is empty after trimming and suffix stripping matches no
\* table key: get_ticker_from_name returns None for it, and get_ticker with
\* only such a name (no ISIN, no symbol) returns 'UNKNOWN.NS'.
C29_BlankNameMatchesNothing ==
  NameCleansToEmpty =>
    /\ call.op = "get_ticker_from_name" => call.result = Nothing
    /\ (call.op = "get_ticker" /\ ~Truthy(portfolio_data.isin) /\ ~Truthy(portfolio_data.symbol))
         => call.result = Returned(<<"U", "N", "K", "N", "O", "W", "N", ".", "N", "S">>)

-----------------------------------------------------------------------------
(* Claims C25, C27 and C28, checked under SpecEngine.                      *)

IsExplainCall == call.op = "explain_stress_impact"

\* What the built-in calculate_stress_impact can return for the call's
\* portfolio and the factors of the call's scenario.
BuiltIn ==
  calculate_stress_impact(portfolio_data, get_scenario(scenarios, call.scenario_name).factors)

\* C25: explain_stress_impact returns an external prediction only when the
\* engine has a model with predict_stress_impact; with no such model, and
\* whenever the predictor raises or returns None, the stress_impact is what
\* the built-in calculate_stress_impact returns for the same portfolio and
\* scenario factors.
C25_BuiltInIsFallback ==
  IsExplainCall =>
    /\ model \in {"None", "NoMethod", "Raises", "ReturnsNone"} =>
         call.result.stress_impact \in BuiltIn
    /\ call.result.stress_impact \in {ExternalPrediction, MalformedPrediction} =>
         HasPredictor(model)

\* A predictor that raises: the impact is the built-in's weighted sum for the
\* 1/4 tech, 3/4 large-cap portfolio under market_correction factors.
C25_Witness ==
  /\ IsExplainCall
  /\ model = "Raises"
  /\ call.scenario_name = market_correction
  /\ "composition_effect" \in DOMAIN call.result.stress_impact
  /\ call.result.stress_impact.total_impact = Rat(-1275, 10000)

\* C27: with no external model, every result of explain_stress_impact has
\* the keys scenario, stress_impact and portfolio_analysis, and the
\* risk_level of its stress_impact is the strict band of |total_impact|
\* (> 0.25 Extreme, > 0.15 High, > 0.08 Medium, else Low), on the default
\* path as on the normal one.
C27_CompleteAndBanded ==
  (IsExplainCall /\ model = "None") =>
    /\ DOMAIN call.result = {"scenario", "stress_impact", "portfolio_analysis"}
    /\ {"total_impact", "risk_level"} \subseteq DOMAIN call.result.stress_impact
    /\ "composition" \in DOMAIN call.result.portfolio_analysis
    /\ call.result.stress_impact.risk_level = Band(call.result.stress_impact.total_impact)

\* The default path: no portfolio, an unknown scenario name, the default
\* impact at the edge of its band (-0.15 is Medium) and the default
\* composition.
C27_Witness ==
  /\ IsExplainCall
  /\ model = "None"
  /\ portfolio_data.isNone
  /\ call.scenario_name = oil_shock
  /\ call.result.stress_impact.value_calculation_method = "Default"
  /\ call.result.stress_impact.total_impact = Rat(-15, 100)
  /\ call.result.stress_impact.risk_level = "Medium"
  /\ call.result.portfolio_analysis.value_column_used = "Default"

\* C28: every row compare_scenarios returns is the row of a requested
\* name: there are no more rows than requested names, and an empty request,
\* or one whose scenarios all failed, gives an empty table.
C28_OnlyRequestedRows ==
  call.op = "compare_scenarios" =>
    /\ Len(call.result) <= Len(call.scenario_names)
    /\ \A j \in 1..Len(call.result) :
         \E i \in 1..Len(call.scenario_names) :
           call.result[j].scenario = title_of[call.scenario_names[i]]
    /\ call.scenario_names = <<>> => call.result = <<>>

-----------------------------------------------------------------------------
(* Claims C26 and C30, checked under Spec.                                 *)

\* The value columns a table can bring with it, in priority order: the
\* candidates of get_value_column after the two calculated ones.
DirectValueColumns == SubSeq(possible_value_columns, 3, Len(possible_value_columns))

\* The table has the two columns a value is calculated from.
HasQuantityAndPrice == {"Average buy price", "Quantity"} \subseteq portfolio_data.columns

\* The sum over the rows of quantity times average buy price, a row with a
\* missing factor counting nothing.
DerivedTotal ==
  SumOver([i \in 1..Len(portfolio_data.rows) |->
             LET row == portfolio_data.rows[i]
             IN IF row["Average buy price"].nan \/ row["Quantity"].nan THEN 0
                ELSE row["Average buy price"].v * row["Quantity"].v],
          1..Len(portfolio_data.rows))

\* analyze_portfolio computed its result from the holdings: it reports a
\* value column, not the default analysis.
FromHoldings == call.result.value_column_used # "Default"

\* C26 (as claimed): when the table has a direct value column,
\* analyze_portfolio, where it analyses the holdings, weights them by it and
\* reports it as value_column_used; quantity times average price is used only when there
\* is none.
C26_DirectColumnWins ==
  (IsAnalysisCall /\ FromHoldings /\ Recognised(DirectValueColumns, portfolio_data)) =>
    /\ call.result.value_column_used = FirstColumn(DirectValueColumns, portfolio_data)
    /\ call.result.total_portfolio_value =
         ColumnSum(portfolio_data, FirstColumn(DirectValueColumns, portfolio_data))

\* C26 (amended): where analyze_portfolio analyses the holdings of a table
\* with the columns 'Average buy price' and 'Quantity', their product is
\* the value the holdings are weighted by and 'Invested Value' is reported
\* as value_column_used, a direct value column notwithstanding; a direct
\* value column is used and reported only when no value can be calculated.
C26_CalculatedColumnWins ==
  (IsAnalysisCall /\ FromHoldings) =>
    /\ HasQuantityAndPrice =>
         /\ call.result.value_column_used = "Invested Value"
         /\ call.result.total_portfolio_value = DerivedTotal
    /\ (~HasQuantityAndPrice /\ Recognised(DirectValueColumns, portfolio_data)) =>
         /\ call.result.value_column_used = FirstColumn(DirectValueColumns, portfolio_data)
         /\ call.result.total_portfolio_value =
              ColumnSum(portfolio_data, FirstColumn(DirectValueColumns, portfolio_data))

\* A table with a 'Buy value' column and with quantity and price: the
\* holdings are weighted by quantity times price, whose total differs from
\* that of 'Buy value'.
C26_Witness ==
  /\ IsAnalysisCall
  /\ HasQuantityAndPrice
  /\ "Buy value" \in portfolio_data.columns
  /\ call.result.value_column_used = "Invested Value"
  /\ call.result.total_portfolio_value = DerivedTotal
  /\ DerivedTotal # ColumnSum(portfolio_data, "Buy value")

\* The composition the call's result carries: that of analyze_portfolio, or
\* the composition_effect of calculate_stress_impact where it has one.
HasComposition ==
  \/ IsAnalysisCall
  \/ IsStressCall /\ "composition_effect" \in DOMAIN call.result

ResultAnalysis ==
  IF IsAnalysisCall THEN call.result ELSE call.result.composition_effect

\* C30: categorize_asset returns 'large_cap_stocks' or 'tech_stocks' and
\* nothing else (for a name it cannot read it raises); every composition
\* computed from the holdings has its keys among these two, and any other
\* category appears only in the default composition.
C30_TwoCategories ==
  /\ \A stock_name \in AllNameCells :
       category_of[stock_name] \in {"large_cap_stocks", "tech_stocks", Raised}
  /\ \A i \in 1..Len(asset_category_mapping) :
       asset_category_mapping[i].category \in {"large_cap_stocks", "tech_stocks"}
  /\ HasComposition =>
       /\ ResultAnalysis.value_column_used # "Default" =>
            /\ DOMAIN ResultAnalysis.composition # {}
            /\ DOMAIN ResultAnalysis.composition \subseteq {"large_cap_stocks", "tech_stocks"}
       /\ ~(DOMAIN ResultAnalysis.composition \subseteq {"large_cap_stocks", "tech_stocks"}) =>
            ResultAnalysis.composition = DefaultComposition

\* A composition computed from two holdings, one of each category, one of
\* them without a name.
C30_Witness ==
  /\ IsAnalysisCall
  /\ call.result.value_column_used = "Value"
  /\ DOMAIN call.result.composition = {"large_cap_stocks", "tech_stocks"}
  /\ \E i \in 1..Len(portfolio_data.rows) :
       /\ portfolio_data.rows[i]["Stock Name"] = NaNName
       /\ portfolio_data.rows[i]["Value"] = Num(3)
====
